---- MODULE Spec2Model ----
(***************************************************************************)
(* A model of the MondiChat backend: the snapshot upload                   *)
(* (services/csvParser.ts), the query resolution engine with its          *)
(* per-user pagination and conversation memory (services/aiAgent.ts) and   *)
(* the WhatsApp webhook that feeds it (routes/auth.ts).                    *)
(*                                                                         *)
(* Texts are TLA+ strings; a character is a string of length 1.  They are  *)
(* held in decomposed form (NFD), an accented letter being its base letter *)
(* followed by the combining mark, and the marks are written in ASCII:     *)
(* ^ for the acute accent, ~ for the tilde.                                *)
(* Pictographs, box-drawing characters and the inverted exclamation mark   *)
(* of the source's message templates are ASCII tags in square brackets.    *)
(***************************************************************************)
EXTENDS Integers, Sequences, FiniteSets, TLC

Null == "<null>"

\* ------------------------------------------------------------------ text

CharAt(s, i) == SubSeq(s, i, i)

\* s.substring(i-1) / s.slice(i-1): the text from position i on
From(s, i) == IF i > Len(s) THEN "" ELSE SubSeq(s, i, Len(s))

\* whether t occurs in s at position i
StartsAt(s, i, t) ==
    /\ i >= 1
    /\ i + Len(t) - 1 <= Len(s)
    /\ SubSeq(s, i, i + Len(t) - 1) = t

\* String.prototype.includes
Includes(s, t) == \E i \in 1..(Len(s) + 1) : StartsAt(s, i, t)

\* String.prototype.startsWith
StartsWith(s, t) == StartsAt(s, 1, t)

\* the regular expressions' \s
IsSpace(c) == c \in {" ", "\t", "\n", "\r"}

\* the regular expressions' \d
Digits == "0123456789"

IsDigit(c) == \E d \in 1..10 : CharAt(Digits, d) = c

DigitValue(c) == (CHOOSE d \in 1..10 : CharAt(Digits, d) = c) - 1

\* String.prototype.trim
RECURSIVE TrimLeft(_)
TrimLeft(s) ==
    IF s # "" /\ IsSpace(CharAt(s, 1)) THEN TrimLeft(From(s, 2)) ELSE s

RECURSIVE TrimRight(_)
TrimRight(s) ==
    IF s # "" /\ IsSpace(CharAt(s, Len(s)))
    THEN TrimRight(SubSeq(s, 1, Len(s) - 1))
    ELSE s

Trim(s) == TrimRight(TrimLeft(s))

\* Array.prototype.join
RECURSIVE Join(_, _)
Join(items, sep) ==
    IF items = <<>> THEN ""
    ELSE IF Len(items) = 1 THEN items[1]
    ELSE items[1] \o sep \o Join(Tail(items), sep)

\* String(n) of an integer
RECURSIVE NatToStr(_)
NatToStr(n) ==
    IF n < 10 THEN CharAt(Digits, n + 1)
    ELSE NatToStr(n \div 10) \o CharAt(Digits, (n % 10) + 1)

IntToStr(n) == IF n < 0 THEN "-" \o NatToStr(0 - n) ELSE NatToStr(n)

\* ------------------------------------------------ aiAgent.ts: normalizeText

UpperLetters == "ABCDEFGHIJKLMNOPQRSTUVWXYZ"
LowerLetters == "abcdefghijklmnopqrstuvwxyz"
\* the combining marks (of U+0300..U+036f) that the texts carry: the acute
\* accent and the tilde
CombiningMarks == "^~"

\* toLowerCase, by character
FoldTable ==
    [c \in {CharAt(UpperLetters, i) : i \in 1..Len(UpperLetters)} |->
        CharAt(LowerLetters,
               CHOOSE i \in 1..Len(UpperLetters) : CharAt(UpperLetters, i) = c)]

\* toLowerCase, then (the text being decomposed already) the removal of the
\* combining marks, by character
FoldChar(c) ==
    IF \E i \in 1..Len(CombiningMarks) : CharAt(CombiningMarks, i) = c THEN ""
    ELSE IF c \in DOMAIN FoldTable THEN FoldTable[c]
    ELSE c

RECURSIVE normalizeText(_)
normalizeText(value) ==
    IF value = "" THEN ""
    ELSE FoldChar(CharAt(value, 1)) \o normalizeText(From(value, 2))

\* ------------------------------------------------- aiAgent.ts: parseNumber

\* String(value).replace(/[^\d.-]/g, '')
RECURSIVE KeepNumeric(_)
KeepNumeric(s) ==
    IF s = "" THEN ""
    ELSE LET c == CharAt(s, 1)
         IN  (IF IsDigit(c) \/ c = "." \/ c = "-" THEN c ELSE "")
                 \o KeepNumeric(From(s, 2))

AllDigits(s) == \A i \in 1..Len(s) : IsDigit(CharAt(s, i))

RECURSIVE StripLeadingZeros(_)
StripLeadingZeros(s) ==
    IF Len(s) > 1 /\ CharAt(s, 1) = "0" THEN StripLeadingZeros(From(s, 2)) ELSE s

RECURSIVE StripTrailingZeros(_)
StripTrailingZeros(s) ==
    IF s # "" /\ CharAt(s, Len(s)) = "0"
    THEN StripTrailingZeros(SubSeq(s, 1, Len(s) - 1))
    ELSE s

\* the position of the first "." of s, or 0
DotAt(s) ==
    IF Includes(s, ".") THEN CHOOSE i \in 1..Len(s) :
                                /\ CharAt(s, i) = "."
                                /\ \A j \in 1..(i - 1) : CharAt(s, j) # "."
    ELSE 0

\* Number(t) for a text t of digits, "." and "-": NaN, or the number, which
\* is kept as JavaScript prints it (String(n)): an optional sign, the whole
\* part without leading zeros, the fraction without trailing zeros.  The
\* empty text is the number 0.
NaN == "NaN"

NumberOf(t) ==
    LET neg == t # "" /\ CharAt(t, 1) = "-"
        u == IF neg THEN From(t, 2) ELSE t
        d == DotAt(u)
        whole == IF d = 0 THEN u ELSE SubSeq(u, 1, d - 1)
        frac == IF d = 0 THEN "" ELSE From(u, d + 1)
        w == StripLeadingZeros(IF whole = "" THEN "0" ELSE whole)
        f == StripTrailingZeros(frac)
    IN  IF t = "" THEN "0"
        ELSE IF u = "" \/ ~AllDigits(whole) \/ ~AllDigits(frac) THEN NaN
        ELSE IF whole = "" /\ frac = "" THEN NaN
        ELSE IF w = "0" /\ f = "" THEN "0"
        ELSE (IF neg THEN "-" ELSE "") \o w \o (IF f = "" THEN "" ELSE "." \o f)

\* value is an attribute's text, or Null when the record has no such attribute
parseNumber(value) ==
    IF value = Null THEN Null
    ELSE LET num == NumberOf(KeepNumeric(value))
         IN  IF num # NaN THEN num ELSE Null

\* ------------------------------------------- aiAgent.ts: intent detection

\* today's weekday as toLocaleDateString('es-PE', {weekday: 'long'}) names it
WeekdayNames ==
    <<"lunes", "martes", "mie^rcoles", "jueves", "viernes", "sa^bado", "domingo">>

resolveDayFilter(queryText, today) ==
    LET days == <<"lunes", "martes", "miercoles", "jueves", "viernes",
                  "sabado", "domingo">>
    IN  IF \E i \in 1..Len(days) : Includes(queryText, days[i])
        THEN days[CHOOSE i \in 1..Len(days) :
                     /\ Includes(queryText, days[i])
                     /\ \A j \in 1..(i - 1) : ~Includes(queryText, days[j])]
        ELSE IF Includes(queryText, "hoy") THEN normalizeText(today)
        ELSE Null

resolveColorFilter(queryText) ==
    IF Includes(queryText, "negro") THEN "NEGRO"
    ELSE IF Includes(queryText, "rojo") THEN "ROJO"
    ELSE IF Includes(queryText, "amarillo") THEN "AMARILLO"
    ELSE IF Includes(queryText, "verde") THEN "VERDE"
    ELSE Null

\* isMoreQuery with the pattern /ver mas/: one space only
isMoreQuerySingleSpace(queryText) == Includes(queryText, "ver mas")

\* /ver\s+mas/
isMoreQuery(queryText) ==
    \E i \in 1..Len(queryText) :
        /\ StartsAt(queryText, i, "ver")
        /\ \E j \in (i + 4)..Len(queryText) :
              /\ \A k \in (i + 3)..(j - 1) : IsSpace(CharAt(queryText, k))
              /\ StartsAt(queryText, j, "mas")

ListTriggers ==
    <<"quien toca", "quien toca hoy", "toca hoy", "lista", "clientes", "dame",
      "muestrame", "mue^strame", "rojo", "negro", "amarillo", "verde",
      "prioridad", "prioritarios", "faltan", "falta", "faltantes", "orden",
      "ordenados", "priorizar">>

isListIntent(queryText) ==
    \E i \in 1..Len(ListTriggers) : Includes(queryText, ListTriggers[i])

\* \s+(?:clientes|registros|primeros|ultimos) at position i
QuantityNouns == <<"clientes", "registros", "primeros", "ultimos">>

SpacesThenNoun(s, i) ==
    \E j \in (i + 1)..Len(s) :
        /\ \A k \in i..(j - 1) : IsSpace(CharAt(s, k))
        /\ \E n \in 1..Len(QuantityNouns) : StartsAt(s, j, QuantityNouns[n])

\* the last position of the run of digits that starts at i
RECURSIVE DigitRunEnd(_, _)
DigitRunEnd(s, i) ==
    IF i + 1 <= Len(s) /\ IsDigit(CharAt(s, i + 1))
    THEN DigitRunEnd(s, i + 1)
    ELSE i

\* /(\d+)\s+(?:clientes|registros|primeros|ultimos)/ matches from position i
DigitMatchAt(s, i) ==
    /\ i <= Len(s)
    /\ IsDigit(CharAt(s, i))
    /\ SpacesThenNoun(s, DigitRunEnd(s, i) + 1)

\* parseInt(t, 10) of a run of digits
RECURSIVE parseInt(_)
parseInt(t) ==
    IF t = "" THEN 0
    ELSE parseInt(SubSeq(t, 1, Len(t) - 1)) * 10 + DigitValue(CharAt(t, Len(t)))

QuantityWords ==
    <<"un", "uno", "una", "dos", "tres", "cuatro", "cinco", "seis", "siete",
      "ocho", "nueve", "diez">>
wordToNum == <<1, 1, 1, 2, 3, 4, 5, 6, 7, 8, 9, 10>>

\* the first alternative of (un|uno|...|diez) with which the pattern matches
\* from position i, or 0
WordMatchAt(s, i) ==
    LET ok(w) == /\ StartsAt(s, i, QuantityWords[w])
                 /\ SpacesThenNoun(s, i + Len(QuantityWords[w]))
    IN  IF \E w \in 1..Len(QuantityWords) : ok(w)
        THEN CHOOSE w \in 1..Len(QuantityWords) :
                 ok(w) /\ \A v \in 1..(w - 1) : ~ok(v)
        ELSE 0

\* requestedQuantity of processUserQuery.  0 stands for null: both are falsy,
\* and the value is only used as `!requestedQuantity` and
\* `requestedQuantity || 10`
requestedQuantity(normalizedQuery) ==
    LET s == normalizedQuery
        \* where the patterns match; a regular expression takes the leftmost
        digitHits == {i \in 1..Len(s) : DigitMatchAt(s, i)}
        di == CHOOSE i \in digitHits : \A j \in digitHits : i <= j
        byDigit == IF digitHits # {}
                   THEN parseInt(SubSeq(s, di, DigitRunEnd(s, di)))
                   ELSE 0
        wordHits == {i \in 1..Len(s) : WordMatchAt(s, i) # 0}
        wi == CHOOSE i \in wordHits : \A j \in wordHits : i <= j
    IN  IF byDigit # 0 THEN byDigit
        ELSE IF wordHits # {} THEN wordToNum[WordMatchAt(s, wi)]
        ELSE 0

\* -------------------------------------------- aiAgent.ts: client summaries

\* data.KEY of a record's attribute bag: its text, or Null (undefined)
Attr(data, key) == IF key \in DOMAIN data THEN data[key] ELSE Null

\* `x && x !== "NO" ? x : null`
Present(x) == IF x # Null /\ x # "" /\ x # "NO" THEN x ELSE Null

\* `${x}` in a template literal
Show(x) == IF x = Null THEN "null" ELSE x

\* x ?? y
Coalesce(x, y) == IF x = Null THEN y ELSE x

getExhibidorType(data) ==
    LET k == Attr(data, "EXHIBIDOR_KIWES")
        l == Attr(data, "EXHIBIDOR_LEGOS")
        on(x) == x # Null /\ x # "" /\ x # "NO"
    IN  IF on(k) /\ on(l) THEN "MIXTO"
        ELSE IF on(k) THEN "KIWE"
        ELSE IF on(l) THEN "LEGO"
        ELSE "N/D"

\* One element of clientSummaries, from one stored record d
\* getDefaultThresholds: the minimums of each colour by exhibitor type; a
\* type outside the table has the minimums of K2.
getDefaultThresholds(type) ==
    CASE type = "K2" -> [rojoMin |-> 1, amarilloMin |-> 8, verdeMin |-> 12]
      [] type = "K3" -> [rojoMin |-> 1, amarilloMin |-> 10, verdeMin |-> 14]
      [] type = "L6" -> [rojoMin |-> 1, amarilloMin |-> 6, verdeMin |-> 9]
      [] type = "L9" -> [rojoMin |-> 1, amarilloMin |-> 7, verdeMin |-> 11]
      [] type = "MK" -> [rojoMin |-> 1, amarilloMin |-> 20, verdeMin |-> 30]
      [] OTHER -> [rojoMin |-> 1, amarilloMin |-> 8, verdeMin |-> 12]

\* computeColorInfo with no packs sold counted as a red client.
computeColorInfoZeroIsRed(packsActual, thresholds) ==
    LET max0(x) == IF x > 0 THEN x ELSE 0
    IN  IF packsActual = <<>> THEN [color |-> "N/D", falta |-> <<>>]
        ELSE LET n == packsActual[1]
             IN  IF n < 0
                 THEN [color |-> "NEGRO", falta |-> <<max0(thresholds.rojoMin - n)>>]
                 ELSE IF n >= thresholds.verdeMin
                 THEN [color |-> "VERDE", falta |-> <<0>>]
                 ELSE IF n >= thresholds.amarilloMin
                 THEN [color |-> "AMARILLO", falta |-> <<max0(thresholds.verdeMin - n)>>]
                 ELSE [color |-> "ROJO", falta |-> <<max0(thresholds.amarilloMin - n)>>]

\* computeColorInfo with the colours of the two middle bands exchanged.
computeColorInfoBandsExchanged(packsActual, thresholds) ==
    LET max0(x) == IF x > 0 THEN x ELSE 0
    IN  IF packsActual = <<>> THEN [color |-> "N/D", falta |-> <<>>]
        ELSE LET n == packsActual[1]
             IN  IF n <= 0
                 THEN [color |-> "NEGRO", falta |-> <<max0(thresholds.rojoMin - n)>>]
                 ELSE IF n >= thresholds.verdeMin
                 THEN [color |-> "VERDE", falta |-> <<0>>]
                 ELSE IF n >= thresholds.amarilloMin
                 THEN [color |-> "ROJO", falta |-> <<max0(thresholds.verdeMin - n)>>]
                 ELSE [color |-> "AMARILLO", falta |-> <<max0(thresholds.amarilloMin - n)>>]

\* computeColorInfo: the colour of a number of packs sold and the packs
\* missing to the next colour. A number that may be null is <<>> for null
\* and <<n>> for n; the numbers are whole packs.
computeColorInfo(packsActual, thresholds) ==
    LET max0(x) == IF x > 0 THEN x ELSE 0
    IN  IF packsActual = <<>> THEN [color |-> "N/D", falta |-> <<>>]
        ELSE LET n == packsActual[1]
             IN  IF n <= 0
                 THEN [color |-> "NEGRO", falta |-> <<max0(thresholds.rojoMin - n)>>]
                 ELSE IF n >= thresholds.verdeMin
                 THEN [color |-> "VERDE", falta |-> <<0>>]
                 ELSE IF n >= thresholds.amarilloMin
                 THEN [color |-> "AMARILLO", falta |-> <<max0(thresholds.verdeMin - n)>>]
                 ELSE [color |-> "ROJO", falta |-> <<max0(thresholds.amarilloMin - n)>>]

clientSummary(d) ==
    LET data == d.data
        kExhibidor == Present(Attr(data, "EXHIBIDOR_KIWES"))
        kColor == Present(Attr(data, "COLOR_ACTUAL_KIWES"))
        kPacks == parseNumber(Attr(data, "PACKS_VENDIDOS_KIWES"))
        kFalta == parseNumber(Attr(data, "PACKS_FALTANTES_KIWES"))
        kMeta == Present(Attr(data, "SIGUIENTE_NIVEL_OBJETIVO_KIWES"))
        lExhibidor == Present(Attr(data, "EXHIBIDOR_LEGOS"))
        lColor == Present(Attr(data, "COLOR_ACTUAL_LEGOS"))
        lPacks == parseNumber(Attr(data, "PACKS_VENDIDOS_LEGOS"))
        lFalta == parseNumber(Attr(data, "PACKS_FALTANTES_LEGOS"))
        lMeta == Present(Attr(data, "SIGUIENTE_NIVEL_OBJETIVO_LEGOS"))
        both == kExhibidor # Null /\ lExhibidor # Null
        onlyK == kExhibidor # Null /\ lExhibidor = Null
        onlyL == kExhibidor = Null /\ lExhibidor # Null
    IN  [ dayLabel |-> IF d.visitDay # ""
                       THEN SubSeq(d.visitDay, 1,
                                   IF Len(d.visitDay) < 3 THEN Len(d.visitDay) ELSE 3)
                       ELSE "???",
          fullDay |-> IF d.visitDay # "" THEN d.visitDay ELSE "N/D",
          clientName |-> IF d.clientName # "" THEN d.clientName
                         ELSE "Cliente sin nombre",
          clientCode |-> IF d.clientCode # "" THEN d.clientCode ELSE "N/D",
          exhibidorText |->
              IF both THEN "Kiwe: " \o kExhibidor \o " | Lego: " \o lExhibidor
              ELSE IF onlyK THEN kExhibidor
              ELSE IF onlyL THEN lExhibidor
              ELSE "N/D",
          packsText |->
              IF both THEN "K:" \o Show(kPacks) \o " L:" \o Show(lPacks)
              ELSE IF onlyK THEN Coalesce(kPacks, "0")
              ELSE IF onlyL THEN Coalesce(lPacks, "0")
              ELSE "N/D",
          faltaText |->
              IF both THEN "Kiwe " \o kExhibidor \o ": " \o Show(kFalta)
                           \o " | Lego " \o lExhibidor \o ": " \o Show(lFalta)
              ELSE IF onlyK THEN kExhibidor \o ": " \o Coalesce(kFalta, "0")
              ELSE IF onlyL THEN lExhibidor \o ": " \o Coalesce(lFalta, "0")
              ELSE "N/D",
          faltaDisplay |->
              IF both THEN "Kiwe " \o kExhibidor \o " " \o Coalesce(kFalta, "0")
                           \o " | Lego " \o lExhibidor \o " " \o Coalesce(lFalta, "0")
              ELSE IF onlyK THEN Coalesce(kFalta, "0") \o " (" \o kExhibidor \o ")"
              ELSE IF onlyL THEN Coalesce(lFalta, "0") \o " (" \o lExhibidor \o ")"
              ELSE "N/D",
          color |->
              IF both THEN "K:" \o Show(kColor) \o " L:" \o Show(lColor)
              ELSE IF onlyK THEN Coalesce(kColor, "N/D")
              ELSE IF onlyL THEN Coalesce(lColor, "N/D")
              ELSE "N/D",
          metaText |->
              IF both THEN "K:" \o Show(kMeta) \o " L:" \o Show(lMeta)
              ELSE IF onlyK THEN Coalesce(kMeta, "N/D")
              ELSE IF onlyL THEN Coalesce(lMeta, "N/D")
              ELSE "N/D",
          tipoText |-> getExhibidorType(data) ]

\* routeData.map(...): the summaries of the records read, in their order
clientSummaries(routeData) ==
    [i \in 1..Len(routeData) |-> clientSummary(routeData[i])]

\* one line of contextData
contextLine(summary) ==
    "[" \o summary.dayLabel \o "] " \o summary.clientName
        \o " (" \o summary.clientCode \o "): EXHIBIDOR=" \o summary.exhibidorText
        \o " | TIPO=" \o summary.tipoText \o " | PACKS=" \o summary.packsText
        \o " | COLOR=" \o summary.color \o " | FALTA=" \o summary.faltaText
        \o " | META=" \o summary.metaText

contextData(summaries) ==
    Join([i \in 1..Len(summaries) |-> contextLine(summaries[i])], "\n")

colorEmojiMap(color) ==
    CASE color = "NEGRO" -> "[black]"
      [] color = "ROJO" -> "[red]"
      [] color = "AMARILLO" -> "[yellow]"
      [] color = "VERDE" -> "[green]"
      [] OTHER -> "[white]"

formatClientBlock(client) ==
    "* " \o client.name \o " (Co^digo: " \o client.clientCode \o ")\n"
        \o "  [_] [tag] Exhibidor: " \o client.exhibidor \o "\n"
        \o "  [_] [date] " \o client.day \o " | [art] " \o colorEmojiMap(client.color)
        \o " " \o client.color \o " (" \o client.packs \o " Packs)\n"
        \o "  [_] [rocket] Falta: " \o client.falta \o " para subir"

\* ------------------------------------------------- aiAgent.ts: pagination

DefaultPageSize == 10

MoreHint == "\n\n[down] *Escribe 'ver ma^s' para los siguientes.*"
Closing == "\n\n[!]MondiChat te acompan~a en tu ruta! [rocket]"

\* items.slice(a, b) with 0-based a and exclusive b
Slice(items, a, b) ==
    LET lo == IF a > Len(items) THEN Len(items) ELSE a
        hi == IF b > Len(items) THEN Len(items) ELSE b
    IN  IF hi <= lo THEN <<>> ELSE SubSeq(items, lo + 1, hi)

\* buildPaginatedResponse with `nextIndex <= items.length` for hasMore
buildPaginatedResponseInclusive(items, startIndex, customPageSize) ==
    LET pageSize == IF customPageSize # 0 THEN customPageSize ELSE DefaultPageSize
        slice == Slice(items, startIndex, startIndex + pageSize)
        nextIndex == startIndex + Len(slice)
        hasMore == nextIndex <= Len(items)
        footer == IF hasMore THEN MoreHint ELSE ""
    IN  [ text |-> Join(slice, "\n\n") \o footer \o Closing,
          nextIndex |-> nextIndex,
          hasMore |-> hasMore ]

\* buildPaginatedResponse that ignores customPageSize
buildPaginatedResponseFixedSize(items, startIndex, customPageSize) ==
    LET slice == Slice(items, startIndex, startIndex + DefaultPageSize)
        nextIndex == startIndex + Len(slice)
        hasMore == nextIndex < Len(items)
        footer == IF hasMore THEN MoreHint ELSE ""
    IN  [ text |-> Join(slice, "\n\n") \o footer \o Closing,
          nextIndex |-> nextIndex,
          hasMore |-> hasMore ]

\* customPageSize is 0 when the caller passes none (or a falsy one)
buildPaginatedResponse(items, startIndex, customPageSize) ==
    LET pageSize == IF customPageSize # 0 THEN customPageSize ELSE DefaultPageSize
        slice == Slice(items, startIndex, startIndex + pageSize)
        nextIndex == startIndex + Len(slice)
        hasMore == nextIndex < Len(items)
        footer == IF hasMore THEN MoreHint ELSE ""
    IN  [ text |-> Join(slice, "\n\n") \o footer \o Closing,
          nextIndex |-> nextIndex,
          hasMore |-> hasMore ]

\* --------------------------------------------- csvParser.ts: the upload

\* toUpperCase, by character
UpperTable ==
    [c \in {CharAt(LowerLetters, i) : i \in 1..Len(LowerLetters)} |->
        CharAt(UpperLetters,
               CHOOSE i \in 1..Len(LowerLetters) : CharAt(LowerLetters, i) = c)]

UpperChar(c) == IF c \in DOMAIN UpperTable THEN UpperTable[c] ELSE c

RECURSIVE toUpperCase(_)
toUpperCase(s) ==
    IF s = "" THEN "" ELSE UpperChar(CharAt(s, 1)) \o toUpperCase(From(s, 2))

\* [\s/]
IsKeySeparator(c) == IsSpace(c) \/ c = "/"

RECURSIVE DropSeparators(_)
DropSeparators(s) ==
    IF s # "" /\ IsKeySeparator(CharAt(s, 1)) THEN DropSeparators(From(s, 2)) ELSE s

\* s.replace(/[\s/]+/g, '_')
RECURSIVE ReplaceSeparatorRuns(_)
ReplaceSeparatorRuns(s) ==
    IF s = "" THEN ""
    ELSE IF IsKeySeparator(CharAt(s, 1))
    THEN "_" \o ReplaceSeparatorRuns(DropSeparators(s))
    ELSE CharAt(s, 1) \o ReplaceSeparatorRuns(From(s, 2))

\* s.replace(/[\s/]+/, '_'): the first run only
RECURSIVE ReplaceFirstSeparatorRun(_)
ReplaceFirstSeparatorRun(s) ==
    IF s = "" THEN ""
    ELSE IF IsKeySeparator(CharAt(s, 1)) THEN "_" \o DropSeparators(s)
    ELSE CharAt(s, 1) \o ReplaceFirstSeparatorRun(From(s, 2))

\* normalizeKey that replaces the first run of separators only
normalizeKeyFirstRunOnly(value) == ReplaceFirstSeparatorRun(toUpperCase(Trim(value)))

normalizeKey(value) == ReplaceSeparatorRuns(toUpperCase(Trim(value)))

\* standaloneHeaderMap[key] of csvParser.ts, or Null
standaloneHeaderMap(key) ==
    CASE key = "PACKS_FALTANTES_SIGUIENTE NIVEL_KIWES" -> "PACKS_FALTANTES_KIWES"
      [] key = "PACKS_FALTANTES_SIGUIENTE NIVEL_LEGOS" -> "PACKS_FALTANTES_LEGOS"
      [] key \in {"EXHIBIDOR_KIWES", "COLOR_ACTUAL_KIWES", "PACKS_VENDIDOS_KIWES",
                  "SIGUIENTE_NIVEL_OBJETIVO_KIWES", "EXHIBIDOR_LEGOS",
                  "COLOR_ACTUAL_LEGOS", "PACKS_VENDIDOS_LEGOS",
                  "SIGUIENTE_NIVEL_OBJETIVO_LEGOS"} -> key
      [] OTHER -> Null

\* the position of the first occurrence of the character d in s, or 0
FirstAt(s, d) ==
    IF Includes(s, d)
    THEN CHOOSE i \in 1..Len(s) :
             CharAt(s, i) = d /\ \A j \in 1..(i - 1) : CharAt(s, j) # d
    ELSE 0

\* the cells of one line (fields without quotes)
RECURSIVE SplitLine(_, _)
SplitLine(line, delimiter) ==
    LET i == FirstAt(line, delimiter)
    IN  IF i = 0 THEN <<line>>
        ELSE <<SubSeq(line, 1, i - 1)>> \o SplitLine(From(line, i + 1), delimiter)

\* An upload is the sequence of its lines: content.split(/\r?\n/).
\* `delimiter` of processCsvUpload
sniffDelimiter(lines) ==
    LET firstLine == IF lines = <<>> THEN "" ELSE lines[1]
    IN  IF Includes(firstLine, ";") THEN ";" ELSE ","

\* parse(fileBuffer, {skip_empty_lines, relax_column_count, delimiter, trim})
parse(lines, delimiter) ==
    LET kept == SelectSeq(lines, LAMBDA l : l # "")
    IN  [r \in 1..Len(kept) |->
            LET cells == SplitLine(kept[r], delimiter)
            IN  [c \in 1..Len(cells) |-> Trim(cells[c])]]

MinRows == 2

\* mappedHeaders of processCsvUpload
mappedHeaders(headers) ==
    [i \in 1..Len(headers) |->
        LET key == Trim(headers[i])
        IN  IF standaloneHeaderMap(key) # Null THEN standaloneHeaderMap(key)
            ELSE normalizeKey(key)]

\* row[j]?.trim() || ""  (j counts from 1)
Cell(row, j) == IF j <= Len(row) THEN Trim(row[j]) ELSE ""

CoreKeys == {"RUTA", "RUTA_LOGICA", "COD_CLIENTE", "NOMBRE_CLIENTE",
             "DIA_VISITA", "DIA_V"}

\* the value a core field ends with: that of the last column whose key is one
\* of `keys`, "" when there is none
CoreValue(mapped, row, keys) ==
    LET cols == {j \in 1..Len(mapped) : mapped[j] \in keys}
    IN  IF cols = {} THEN ""
        ELSE Cell(row, CHOOSE j \in cols : \A k \in cols : k <= j)

\* a variant in which the first column of a key keeps its value
dynamicDataFirstWins(mapped, row) ==
    LET cols == {j \in 1..Len(mapped) : mapped[j] # "" /\ mapped[j] \notin CoreKeys}
    IN  [key \in {mapped[j] : j \in cols} |->
            Cell(row, CHOOSE j \in cols :
                          /\ mapped[j] = key
                          /\ \A k \in cols : mapped[k] = key => j <= k)]

\* dynamicData after the column loop
dynamicData(mapped, row) ==
    LET cols == {j \in 1..Len(mapped) : mapped[j] # "" /\ mapped[j] \notin CoreKeys}
    IN  [key \in {mapped[j] : j \in cols} |->
            Cell(row, CHOOSE j \in cols :
                          /\ mapped[j] = key
                          /\ \A k \in cols : mapped[k] = key => k <= j)]

\* the entry built from one data row
rowEntry(mapped, row, batchId) ==
    [ routeCode |-> CoreValue(mapped, row, {"RUTA", "RUTA_LOGICA"}),
      clientCode |-> CoreValue(mapped, row, {"COD_CLIENTE"}),
      clientName |-> CoreValue(mapped, row, {"NOMBRE_CLIENTE"}),
      visitDay |-> CoreValue(mapped, row, {"DIA_VISITA", "DIA_V"}),
      data |-> dynamicData(mapped, row),
      batchId |-> batchId ]

\* the row validation of processCsvUpload
validEntry(e) ==
    /\ e.clientCode # ""
    /\ e.routeCode # "" /\ e.routeCode # "0" /\ e.routeCode # "0.0"

\* routeDataEntries of processCsvUpload, for parsed records with >= 2 rows
routeDataEntries(records, batchId) ==
    LET mapped == mappedHeaders(records[1])
        all == [i \in 1..(Len(records) - 1) |->
                   rowEntry(mapped, records[i + 1], batchId)]
    IN  SelectSeq(all, validEntry)

\* ------------------- the upload in its earlier layouts (category rows)

\* parse(fileBuffer, {skip_empty_lines, relax_column_count}): comma-delimited,
\* the cells as written
parseDefault(lines) ==
    LET kept == SelectSeq(lines, LAMBDA l : l # "")
    IN  [r \in 1..Len(kept) |-> SplitLine(kept[r], ",")]

\* records[i - 1], undefined being a row without cells
RowAt(records, i) == IF i <= Len(records) THEN records[i] ELSE <<>>

Max(a, b) == IF a < b THEN b ELSE a

\* the columns from this index on (counted from 0) take the category prefix
CategoryFromColumn == 10

\* -- two rows of headers: categories, sub-headers

MinRowsTwoRow == 3

\* currentCategory after the header loop has passed column j (from 1)
RECURSIVE currentCategoryTwoRow(_, _)
currentCategoryTwoRow(categories, j) ==
    IF j = 0 THEN ""
    ELSE IF Cell(categories, j) # "" THEN Cell(categories, j)
    ELSE currentCategoryTwoRow(categories, j - 1)

\* mappedHeaders of the two-row layout
mappedHeadersTwoRow(categories, headers) ==
    [j \in 1..Max(Len(categories), Len(headers)) |->
        LET sub == Cell(headers, j)
            currentCategory == currentCategoryTwoRow(categories, j)
        IN  IF currentCategory # "" /\ j - 1 >= CategoryFromColumn /\ sub # ""
            THEN currentCategory \o "_" \o sub
            ELSE sub]

CoreKeysTwoRow == {"RUTA LO^GICA", "COD CLIENTE", "NOMBRE CLIENTE", "DIA V"}

\* dynamicData after the column loop: the non-empty values, the last column
\* of a key winning
dynamicDataTwoRow(mapped, row) ==
    LET cols == {j \in 1..Len(mapped) :
                    /\ mapped[j] # "" /\ mapped[j] \notin CoreKeysTwoRow
                    /\ Cell(row, j) # ""}
    IN  [key \in {mapped[j] : j \in cols} |->
            Cell(row, CHOOSE j \in cols :
                          /\ mapped[j] = key
                          /\ \A k \in cols : mapped[k] = key => k <= j)]

rowEntryTwoRow(mapped, row, batchId) ==
    [ routeCode |-> CoreValue(mapped, row, {"RUTA LO^GICA"}),
      clientCode |-> CoreValue(mapped, row, {"COD CLIENTE"}),
      clientName |-> CoreValue(mapped, row, {"NOMBRE CLIENTE"}),
      visitDay |-> CoreValue(mapped, row, {"DIA V"}),
      data |-> dynamicDataTwoRow(mapped, row),
      batchId |-> batchId ]

\* the row validation of the two-row layout
validEntryTwoRow(e) == e.routeCode # "" /\ e.clientCode # ""

\* routeDataEntries of the two-row layout: the rows from the third on
routeDataEntriesTwoRow(records, batchId) ==
    LET mapped == mappedHeadersTwoRow(RowAt(records, 1), RowAt(records, 2))
        all == [i \in 1..(Len(records) - 2) |->
                   rowEntryTwoRow(mapped, records[i + 2], batchId)]
    IN  SelectSeq(all, validEntryTwoRow)

\* -- three rows of headers: categories, headers, fallback headers

MinRowsThreeRow == 3

\* standaloneHeaderMap[key] of the three-row layout, or Null
standaloneHeaderMapThreeRow(key) ==
    CASE key = "PACKS_DISPLAYS" -> "EXHIBIDOR"
      [] key = "DISPLAYS" -> "META_PACKS"
      [] key = "NEGRO" -> "RANGO_NEGRO"
      [] key = "ROJO" -> "RANGO_ROJO"
      [] key = "AMARILLO" -> "RANGO_AMARILLO"
      [] key = "VERDE" -> "RANGO_VERDE"
      [] OTHER -> Null

\* String.prototype.toLowerCase
RECURSIVE toLowerCase(_)
toLowerCase(s) ==
    IF s = "" THEN ""
    ELSE (IF CharAt(s, 1) \in DOMAIN FoldTable THEN FoldTable[CharAt(s, 1)]
          ELSE CharAt(s, 1)) \o toLowerCase(From(s, 2))

\* lowerCat === "actual" || lowerCat === "necesidad"
isMarkerCategory(cat) == toLowerCase(cat) \in {"actual", "necesidad"}

\* resolvedHeaders: a blank header gives way to the cell below it
resolvedHeaders(headers, fallbackHeaders) ==
    [j \in 1..Len(headers) |->
        IF Trim(headers[j]) # "" THEN headers[j]
        ELSE IF j <= Len(fallbackHeaders) THEN fallbackHeaders[j] ELSE ""]

\* a variant in which a marker cell does update currentCategory
RECURSIVE currentCategoryMarkersToo(_, _)
currentCategoryMarkersToo(categories, j) ==
    IF j = 0 THEN ""
    ELSE IF Cell(categories, j) # "" THEN Cell(categories, j)
    ELSE currentCategoryMarkersToo(categories, j - 1)

\* currentCategory after the header loop has passed column j (from 1)
RECURSIVE currentCategoryThreeRow(_, _)
currentCategoryThreeRow(categories, j) ==
    IF j = 0 THEN ""
    ELSE IF Cell(categories, j) # "" /\ ~isMarkerCategory(Cell(categories, j))
    THEN Cell(categories, j)
    ELSE currentCategoryThreeRow(categories, j - 1)

\* mappedHeaders of the three-row layout
mappedHeadersThreeRow(categories, resolved) ==
    [j \in 1..Max(Len(categories), Len(resolved)) |->
        LET cat == Cell(categories, j)
            sub == Cell(resolved, j)
            currentCategory == currentCategoryThreeRow(categories, j)
            key == IF sub # "" THEN normalizeKey(sub) ELSE ""
            mappedStandalone == IF key # "" THEN standaloneHeaderMapThreeRow(key)
                                ELSE Null
            useCategory == IF cat = "" \/ isMarkerCategory(cat)
                           THEN currentCategory ELSE cat
        IN  IF mappedStandalone # Null THEN mappedStandalone
            ELSE IF key # "" /\ j - 1 >= CategoryFromColumn /\ useCategory # ""
            THEN normalizeKey(useCategory) \o "_" \o key
            ELSE key]

CoreKeysThreeRow == {"RUTA_LOGICA", "COD_CLIENTE", "NOMBRE_CLIENTE", "DIA_V"}

\* dynamicData after the column loop: the non-empty values that do not
\* normalize to a key of standaloneHeaderMap, the last column of a key winning
dynamicDataThreeRow(mapped, row) ==
    LET cols == {j \in 1..Len(mapped) :
                    /\ mapped[j] # "" /\ mapped[j] \notin CoreKeysThreeRow
                    /\ Cell(row, j) # ""
                    /\ standaloneHeaderMapThreeRow(normalizeKey(Cell(row, j))) = Null}
    IN  [key \in {mapped[j] : j \in cols} |->
            Cell(row, CHOOSE j \in cols :
                          /\ mapped[j] = key
                          /\ \A k \in cols : mapped[k] = key => k <= j)]

rowEntryThreeRow(mapped, row, batchId) ==
    [ routeCode |-> CoreValue(mapped, row, {"RUTA_LOGICA"}),
      clientCode |-> CoreValue(mapped, row, {"COD_CLIENTE"}),
      clientName |-> CoreValue(mapped, row, {"NOMBRE_CLIENTE"}),
      visitDay |-> CoreValue(mapped, row, {"DIA_V"}),
      data |-> dynamicDataThreeRow(mapped, row),
      batchId |-> batchId ]

\* the row validation of the three-row layout
validEntryThreeRow(e) == e.routeCode # "" /\ e.clientCode # ""

\* routeDataEntries of the three-row layout: the loop starts at records[2],
\* the row that also serves as fallbackHeaders
routeDataEntriesThreeRow(records, batchId) ==
    LET categories == RowAt(records, 1)
        mapped == mappedHeadersThreeRow(categories,
                      resolvedHeaders(RowAt(records, 2), RowAt(records, 3)))
        all == [i \in 1..(Len(records) - 2) |->
                   rowEntryThreeRow(mapped, records[i + 2], batchId)]
    IN  SelectSeq(all, validEntryThreeRow)

\* ------------------------------------------------------------- the state

VARIABLES
    store,                \* the RouteData table: a sequence of records
    now,                  \* the clock, in milliseconds
    uploads,              \* the /admin/upload-csv requests, in order of arrival
    queries,              \* the processUserQuery calls, in order of arrival
    paginationState,      \* aiAgent.ts: Map userId -> {items, index}
    conversationHistory,  \* aiAgent.ts: Map userId -> messages
    reports,              \* the Report table
    outbox,               \* what sendWazendMessage has sent: {to, text}
    listed,               \* per user, the items of the user's latest list
    shown,                \* per user, the pages served out of that list so far
    classification,       \* a count and a product type, and their colour
    users,                \* the User table: id -> the columns that requests write
    registrationCodes,    \* the RegistrationCode table: code -> its row
    requests              \* the HTTP requests received, in order of arrival

vars == <<store, now, uploads, queries, paginationState, conversationHistory,
          reports, outbox, listed, shown, classification, users,
          registrationCodes, requests>>

\* the tables and the requests of registration, linking and the admin routes
accounts == <<users, registrationCodes, requests>>

\* no count has been handed to computeColorInfo
Unclassified == [packsActual |-> <<>>, type |-> Null, thresholds |-> <<>>, info |-> <<>>]

\* the bounds of the model
MaxQueries == 2
MaxInFlight == 2
MaxUploads == 2
MaxReads == 1
MaxClock == 2
MaxPagingQueries == 3
MaxClients == 12
MaxTurns == 2
MaxPacks == 31
MaxReturned == 2
MaxCellLen == 3
MaxSessionQueries == 3
MaxKeyLen == 3
MaxRegistrations == 3
MaxAdminRequests == 2
MaxWebhookRequests == 2

\* The User table as provisioned by registration, linking and the admin:
\* u1 and u2 sell on routes R1 and R2, u3 has no route yet.
UserTable ==
    [ u1 |-> [name |-> "Ana", route |-> "R1", whatsappId |-> "51900000001"],
      u2 |-> [name |-> "Luis", route |-> "R2", whatsappId |-> "51900000002"],
      u3 |-> [name |-> "", route |-> Null, whatsappId |-> "51900000003"] ]

UserIds == DOMAIN UserTable

\* prisma.user.findUnique({ where: { whatsappId } }): a user id, or Null
findUserByWhatsapp(phone) ==
    IF \E u \in UserIds : UserTable[u].whatsappId = phone
    THEN CHOOSE u \in UserIds : UserTable[u].whatsappId = phone
    ELSE Null

\* The columns of the User table that requests write, for the users of
\* UserTable: each is linked to its phone and holds no pending code.
UserAccounts ==
    [u \in UserIds |->
        [ email |-> u \o "@mondi.pe", role |-> "user",
          whatsappId |-> UserTable[u].whatsappId,
          verificationCode |-> Null, registrationCode |-> Null ]]

\* The RegistrationCode table: the global code that the seed script upserts,
\* and an invitation for one user.
CodesAtStart ==
    [c \in {"MONDI-DEMO", "INV-1"} |->
        [isGlobal |-> c = "MONDI-DEMO", isUsed |-> FALSE, usedByUserId |-> Null]]

RouteDataTake == 800

\* ORDER BY uploadedAt DESC, rows of equal uploadedAt in table order
RECURSIVE SortByUploadedAtDesc(_)
SortByUploadedAtDesc(rows) ==
    IF rows = <<>> THEN <<>>
    ELSE LET top == CHOOSE t \in {rows[i].uploadedAt : i \in 1..Len(rows)} :
                        \A i \in 1..Len(rows) : rows[i].uploadedAt <= t
         IN  SelectSeq(rows, LAMBDA r : r.uploadedAt = top)
                 \o SortByUploadedAtDesc(SelectSeq(rows, LAMBDA r : r.uploadedAt # top))

\* prisma.routeData.findMany({ where: { routeCode }, orderBy, take: 800 })
findMany(table, routeCode) ==
    LET hits == SortByUploadedAtDesc(SelectSeq(table, LAMBDA r : r.routeCode = routeCode))
    IN  IF Len(hits) > RouteDataTake THEN SubSeq(hits, 1, RouteDataTake) ELSE hits

\* prisma.routeData.createMany({ data }): the table after the insert at time t
createMany(table, entries, t) ==
    table \o [i \in 1..Len(entries) |->
                 [ routeCode |-> entries[i].routeCode,
                   clientCode |-> entries[i].clientCode,
                   clientName |-> entries[i].clientName,
                   visitDay |-> entries[i].visitDay,
                   data |-> entries[i].data,
                   batchId |-> entries[i].batchId,
                   uploadedAt |-> t ]]

\* the fixed texts of the responses
NoRouteMsg == "[warn] No tienes una ruta asignada. Por favor contacta a tu supervisor."
NoDataMsg(route) == "[warn] No hay informacio^n cargada para la ruta " \o route \o "."
NoMoreMsg == "No hay ma^s clientes en la lista actual. [!]MondiChat te acompan~a en tu ruta! [rocket]"
NoMatchMsg == "No encontre^ clientes con ese criterio. [!]MondiChat te acompan~a en tu ruta! [rocket]"
NoContentMsg == "Lo siento, no pude procesar tu solicitud."
ApologyMsg == "[x] Tuve un problema procesando tu consulta. Intenta de nuevo ma^s tarde."
UnknownNumberMsg == "Hola, no reconozco este nu^mero. Por favor, regi^strate en la web y envi^a tu co^digo de vinculacio^n (ej: #Mondi-1234)."
ReportMarker == "REPORT_DETECTED:"
HistoryCap == 50

\* Map.prototype.set and Map.prototype.delete
MapSet(m, k, v) == [x \in DOMAIN m \cup {k} |-> IF x = k THEN v ELSE m[x]]
MapDelete(m, k) == [x \in DOMAIN m \ {k} |-> m[x]]
EmptyMap == [x \in {} |-> Null]

ReplaceAt(seq, i, v) == [seq EXCEPT ![i] = v]

\* ---------------------------------------------------- the upload, by steps

\* toISOString() of the clock: the timestamp's text
batchIdAt(t) == IntToStr(t)

\* the texts of the errors processCsvUpload throws
TooFewRowsMsg == "El archivo CSV debe tener al menos 2 filas (cabeceras y datos)"
TooFewRowsMsgCategories == "El archivo CSV debe tener al menos 3 filas (categori^as, cabeceras y datos)"

\* a variant whose row check is off by one
uploadOfOneRowLess(layout, lines, rows, minRows, entries, batchId, message) ==
    IF rows < minRows - 1
    THEN [layout |-> layout, file |-> lines, pc |-> "failed", entries |-> <<>>,
          batchId |-> Null, count |-> 0, error |-> message]
    ELSE [layout |-> layout, file |-> lines,
          pc |-> IF Len(entries) > 0 THEN "deleteMany" ELSE "done",
          entries |-> entries, batchId |-> batchId, count |-> Len(entries),
          error |-> Null]

\* a variant that replaces the snapshot whatever the number of valid rows
uploadOfAlwaysReplaces(layout, lines, rows, minRows, entries, batchId, message) ==
    IF rows < minRows
    THEN [layout |-> layout, file |-> lines, pc |-> "failed", entries |-> <<>>,
          batchId |-> Null, count |-> 0, error |-> message]
    ELSE [layout |-> layout, file |-> lines, pc |-> "deleteMany",
          entries |-> entries, batchId |-> batchId, count |-> Len(entries),
          error |-> Null]

\* the call of processCsvUpload as it stands after parsing and validating the
\* rows: it has thrown (failed), or returns at once (no valid row: done), or
\* goes on to deleteMany.  `layout` and `file` keep the variant called and
\* the lines it was given.
uploadOf(layout, lines, rows, minRows, entries, batchId, message) ==
    IF rows < minRows
    THEN [layout |-> layout, file |-> lines, pc |-> "failed", entries |-> <<>>,
          batchId |-> Null, count |-> 0, error |-> message]
    ELSE [layout |-> layout, file |-> lines,
          pc |-> IF Len(entries) > 0 THEN "deleteMany" ELSE "done",
          entries |-> entries, batchId |-> batchId, count |-> Len(entries),
          error |-> Null]

\* /admin/upload-csv up to the first database call: the file is parsed, its
\* rows validated, and the request either fails on the row count, or answers
\* at once (no valid row), or goes on to deleteMany
UploadStart(lines) ==
    /\ LET records == parse(lines, sniffDelimiter(lines))
           batchId == batchIdAt(now)
           entries == IF Len(records) < MinRows THEN <<>>
                      ELSE routeDataEntries(records, batchId)
       IN  uploads' = Append(uploads,
               uploadOf("single", lines, Len(records), MinRows, entries, batchId,
                        TooFewRowsMsg))
    /\ UNCHANGED <<accounts, classification, store, now, queries, paginationState, conversationHistory,
                   reports, outbox, listed, shown>>

\* the same with processCsvUpload in its two-row layout
UploadStartTwoRow(lines) ==
    /\ LET records == parseDefault(lines)
           batchId == batchIdAt(now)
           entries == IF Len(records) < MinRowsTwoRow THEN <<>>
                      ELSE routeDataEntriesTwoRow(records, batchId)
       IN  uploads' = Append(uploads,
               uploadOf("two-row", lines, Len(records), MinRowsTwoRow, entries,
                        batchId, TooFewRowsMsgCategories))
    /\ UNCHANGED <<accounts, classification, store, now, queries, paginationState, conversationHistory,
                   reports, outbox, listed, shown>>

\* the same with processCsvUpload in its three-row layout
UploadStartThreeRow(lines) ==
    /\ LET records == parseDefault(lines)
           batchId == batchIdAt(now)
           entries == IF Len(records) < MinRowsThreeRow THEN <<>>
                      ELSE routeDataEntriesThreeRow(records, batchId)
       IN  uploads' = Append(uploads,
               uploadOf("three-row", lines, Len(records), MinRowsThreeRow, entries,
                        batchId, TooFewRowsMsgCategories))
    /\ UNCHANGED <<accounts, classification, store, now, queries, paginationState, conversationHistory,
                   reports, outbox, listed, shown>>

\* what /admin/upload-csv answers for a call that has failed or returned
uploadReply(u) ==
    IF u.pc = "failed"
    THEN [status |-> 500, error |-> u.error, success |-> FALSE, count |-> 0,
          batchId |-> Null]
    ELSE [status |-> 200, error |-> Null, success |-> TRUE, count |-> u.count,
          batchId |-> u.batchId]

\* deleteMany and createMany in one transaction: the table passes from the
\* prior snapshot to the new one in a single step
UploadDeleteInTransaction(k) ==
    /\ k \in 1..Len(uploads)
    /\ uploads[k].pc = "deleteMany"
    /\ store' = createMany(<<>>, uploads[k].entries, now)
    /\ uploads' = ReplaceAt(uploads, k, [uploads[k] EXCEPT !.pc = "done"])
    /\ UNCHANGED <<accounts, classification, now, queries, paginationState, conversationHistory,
                   reports, outbox, listed, shown>>

\* await prisma.routeData.deleteMany({})
UploadDelete(k) ==
    /\ k \in 1..Len(uploads)
    /\ uploads[k].pc = "deleteMany"
    /\ store' = <<>>
    /\ uploads' = ReplaceAt(uploads, k, [uploads[k] EXCEPT !.pc = "createMany"])
    /\ UNCHANGED <<accounts, classification, now, queries, paginationState, conversationHistory,
                   reports, outbox, listed, shown>>

\* await prisma.routeData.createMany({ data: routeDataEntries }), and the answer
UploadInsert(k) ==
    /\ k \in 1..Len(uploads)
    /\ uploads[k].pc = "createMany"
    /\ store' = createMany(store, uploads[k].entries, now)
    /\ uploads' = ReplaceAt(uploads, k, [uploads[k] EXCEPT !.pc = "done"])
    /\ UNCHANGED <<accounts, classification, now, queries, paginationState, conversationHistory,
                   reports, outbox, listed, shown>>

\* the message of the error that a rejected createMany throws
BulkInsertError == "createMany rejected"

\* await prisma.routeData.createMany(...) throws: processCsvUpload throws
\* with it, after its deleteMany, and the route answers with the error
UploadInsertFails(k) ==
    /\ k \in 1..Len(uploads)
    /\ uploads[k].pc = "createMany"
    /\ uploads' = ReplaceAt(uploads, k, [uploads[k] EXCEPT !.pc = "failed",
                                                          !.error = BulkInsertError])
    /\ UNCHANGED <<accounts, classification, store, now, queries, paginationState,
                   conversationHistory, reports, outbox, listed, shown>>

\* a millisecond passes
Tick ==
    /\ now < MaxClock
    /\ now' = now + 1
    /\ UNCHANGED <<accounts, classification, store, uploads, queries, paginationState, conversationHistory,
                   reports, outbox, listed, shown>>

\* ----------------------------------------------------- the query, by steps

\* processUserQuery up to its second database call: the user is looked up,
\* and a user without a route is answered at once
newQuery(userId, query, isAudio, audioMsg, phone) ==
    LET route == IF userId \in UserIds THEN UserTable[userId].route ELSE Null
        routed == route # Null /\ route # ""
    IN  [ user |-> userId, query |-> query, isAudio |-> isAudio,
          audioMsg |-> audioMsg, phone |-> phone, route |-> route,
          pc |-> IF routed THEN "findMany" ELSE "done",
          path |-> IF routed THEN "" ELSE "noroute",
          response |-> IF routed THEN Null ELSE NoRouteMsg,
          routeData |-> <<>>, history |-> <<>>, llmCalls |-> 0,
          completion |-> Null,
          prior |-> <<>>, pageSize |-> 0, hasMore |-> FALSE ]

\* sendWazendMessage(phoneNumber, response) of the webhook, for a query that
\* came through it
sentFor(q) ==
    IF q.phone # Null /\ q.pc = "done"
    THEN {[to |-> q.phone, text |-> q.response]}
    ELSE {}

\* The query operation called directly: processUserQuery(userId, query,
\* userName, isAudio)
DirectQuery(userId, query, isAudio) ==
    /\ queries' = Append(queries, newQuery(userId, query, isAudio, FALSE, Null))
    /\ UNCHANGED <<accounts, classification, store, now, uploads, paginationState, conversationHistory,
                   reports, outbox, listed, shown>>

\* the webhook handing a voice note that could not be transcribed on as text
WebhookForwardingFailure(msg, transcribed) ==
    LET raw == IF msg.audio THEN (IF transcribed THEN msg.body ELSE "audio") ELSE msg.body
        text == Trim(raw)
        userId == findUserByWhatsapp(msg.phone)
        q == newQuery(userId, text, FALSE, msg.audio, msg.phone)
    IN  /\ ~StartsWith(text, "#Mondi-")
        /\ IF text = ""
           THEN UNCHANGED <<queries, outbox>>
           ELSE IF userId = Null
           THEN /\ outbox' = outbox \cup {[to |-> msg.phone, text |-> UnknownNumberMsg]}
                /\ UNCHANGED queries
           ELSE /\ queries' = Append(queries, q)
                /\ outbox' = outbox \cup sentFor(q)
        /\ UNCHANGED <<accounts, classification, store, now, uploads, paginationState, conversationHistory,
                       reports, listed, shown>>

\* POST /webhook/wazend with a message of a person (not of a group, not our
\* own, not a linking code): msg.audio tells a voice note, whose text is what
\* transcribeAudio returns (the transcript, or "" when it fails), from a text
\* message; then the sender is looked up and the text goes to
\* processUserQuery(user.id, text, user.name)
Webhook(msg, transcribed) ==
    LET raw == IF msg.audio THEN (IF transcribed THEN msg.body ELSE "") ELSE msg.body
        text == Trim(raw)
        userId == findUserByWhatsapp(msg.phone)
        q == newQuery(userId, text, FALSE, msg.audio, msg.phone)
    IN  /\ ~StartsWith(text, "#Mondi-")
        /\ IF text = ""
           THEN UNCHANGED <<queries, outbox>>
           ELSE IF userId = Null
           THEN /\ outbox' = outbox \cup {[to |-> msg.phone, text |-> UnknownNumberMsg]}
                /\ UNCHANGED queries
           ELSE /\ queries' = Append(queries, q)
                /\ outbox' = outbox \cup sentFor(q)
        /\ UNCHANGED <<accounts, classification, store, now, uploads, paginationState, conversationHistory,
                       reports, listed, shown>>

\* what the webhook answers once the message is handled: whether the text is
\* empty, the sender unknown or the query answered, reply.status(200).send('ok')
webhookReply(msg, transcribed) == [status |-> 200, body |-> "ok"]

\* await prisma.routeData.findMany(...): the database answers
QueryRead(i) ==
    /\ i \in 1..Len(queries)
    /\ queries[i].pc = "findMany"
    /\ queries' = ReplaceAt(queries, i,
                     [queries[i] EXCEPT !.pc = "resolve",
                                        !.routeData = findMany(store, queries[i].route)])
    /\ UNCHANGED <<accounts, classification, store, now, uploads, paginationState, conversationHistory,
                   reports, outbox, listed, shown>>

\* a text that JavaScript takes for true: neither null nor empty
Truthy(x) == x # Null /\ x # ""

\* a filter that passes every colour
filterSummariesAnyColour(summaries, dayFilter, colorFilter) ==
    SelectSeq(summaries, LAMBDA summary :
        Truthy(dayFilter) => Includes(normalizeText(summary.fullDay), dayFilter))

\* a filter that asks for the day or the colour where both are given
filterSummariesEitherFilter(summaries, dayFilter, colorFilter) ==
    SelectSeq(summaries, LAMBDA summary :
        IF Truthy(dayFilter) /\ Truthy(colorFilter)
        THEN \/ Includes(normalizeText(summary.fullDay), dayFilter)
             \/ summary.color = colorFilter
        ELSE /\ Truthy(dayFilter) => Includes(normalizeText(summary.fullDay), dayFilter)
             /\ Truthy(colorFilter) => summary.color = colorFilter)

\* the filter of the list branch
filterSummaries(summaries, dayFilter, colorFilter) ==
    SelectSeq(summaries, LAMBDA summary :
        /\ Truthy(dayFilter) => Includes(normalizeText(summary.fullDay), dayFilter)
        /\ Truthy(colorFilter) => summary.color = colorFilter)

\* items of the list branch
formatItems(filtered) ==
    [i \in 1..Len(filtered) |->
        formatClientBlock([ name |-> filtered[i].clientName,
                            day |-> filtered[i].dayLabel,
                            exhibidor |-> filtered[i].exhibidorText,
                            color |-> filtered[i].color,
                            packs |-> filtered[i].packsText,
                            falta |-> filtered[i].faltaDisplay,
                            clientCode |-> filtered[i].clientCode ])]

\* the list branch's condition without the isAudio guards
takesListBranchIgnoringAudio(normalizedQuery, dayFilter, colorFilter, isAudio) ==
    isListIntent(normalizedQuery) \/ Truthy(dayFilter) \/ Truthy(colorFilter)

\* `listRequested || (dayFilter && !isAudio) || (colorFilter && !isAudio)`
takesListBranch(normalizedQuery, dayFilter, colorFilter, isAudio) ==
    LET listRequested == ~isAudio /\ isListIntent(normalizedQuery)
    IN  \/ listRequested
        \/ (Truthy(dayFilter) /\ ~isAudio)
        \/ (Truthy(colorFilter) /\ ~isAudio)

\* pageStored without the delete of an exhausted entry
pageStoredNoDelete(pagination, userId, items, page) ==
    MapSet(pagination, userId, [items |-> items, index |-> page.nextIndex])

\* pageStored with one entry for all users, kept under the first user's id
pageStoredInOneSlot(pagination, userId, items, page) ==
    LET stored == MapSet(pagination, "u1", [items |-> items, index |-> page.nextIndex])
    IN  IF ~page.hasMore THEN MapDelete(stored, "u1") ELSE stored

\* pageStored that leaves an entry the user already has as it is
pageStoredIfAbsent(pagination, userId, items, page) ==
    IF userId \in DOMAIN pagination THEN pagination
    ELSE IF ~page.hasMore THEN pagination
    ELSE MapSet(pagination, userId, [items |-> items, index |-> page.nextIndex])

\* the pagination map after a page: the cursor is stored, and the entry is
\* deleted when the page is the last one
pageStored(pagination, userId, items, page) ==
    LET stored == MapSet(pagination, userId, [items |-> items, index |-> page.nextIndex])
    IN  IF ~page.hasMore THEN MapDelete(stored, userId) ELSE stored

\* the continuation branch applies to a user with an entry of some items
hasPage(pagination, userId) ==
    userId \in DOMAIN pagination /\ Len(pagination[userId].items) > 0

\* trimHistory that keeps the first HistoryCap messages
trimHistoryOldest(newHistory) ==
    IF Len(newHistory) > HistoryCap THEN SubSeq(newHistory, 1, HistoryCap)
    ELSE newHistory

\* new history after an exchange: at most the last HistoryCap messages
trimHistory(newHistory) ==
    IF Len(newHistory) > HistoryCap
    THEN SubSeq(newHistory, Len(newHistory) - HistoryCap + 1, Len(newHistory))
    ELSE newHistory

\* processUserQuery from the answer of findMany to its return or to the call
\* of the completion service; `today` is the weekday of the clock in Lima
QueryResolve(i, today) ==
    /\ i \in 1..Len(queries)
    /\ queries[i].pc = "resolve"
    /\ LET q == queries[i]
           userId == q.user
           summaries == clientSummaries(q.routeData)
           normalizedQuery == normalizeText(q.query)
           dayFilter == resolveDayFilter(normalizedQuery, today)
           colorFilter == resolveColorFilter(normalizedQuery)
           quantity == requestedQuantity(normalizedQuery)
           filtered == filterSummaries(summaries, dayFilter, colorFilter)
           items == formatItems(filtered)
           pageSize == IF quantity # 0 THEN quantity ELSE DefaultPageSize
           prior == IF userId \in DOMAIN paginationState
                    THEN <<paginationState[userId]>> ELSE <<>>
           finish(path, response) ==
               [q EXCEPT !.pc = "done", !.path = path, !.response = response,
                         !.routeData = <<>>]
       IN  IF Len(q.routeData) = 0
           THEN /\ queries' = ReplaceAt(queries, i, finish("nodata", NoDataMsg(q.route)))
                /\ outbox' = outbox \cup sentFor(finish("nodata", NoDataMsg(q.route)))
                /\ UNCHANGED <<paginationState, conversationHistory, listed, shown>>
           ELSE IF isMoreQuery(normalizedQuery)
           THEN IF hasPage(paginationState, userId)
                THEN LET state == paginationState[userId]
                         page == buildPaginatedResponse(state.items, state.index,
                                                        DefaultPageSize)
                         done == [finish("more", page.text) EXCEPT
                                     !.prior = prior, !.hasMore = page.hasMore,
                                     !.pageSize = DefaultPageSize]
                     IN  /\ paginationState' =
                                pageStored(paginationState, userId, state.items, page)
                         /\ queries' = ReplaceAt(queries, i, done)
                         /\ outbox' = outbox \cup sentFor(done)
                         /\ shown' = [shown EXCEPT ![userId] =
                                         Append(@, [text |-> page.text,
                                                    hasMore |-> page.hasMore])]
                         /\ UNCHANGED <<conversationHistory, listed>>
                ELSE /\ queries' = ReplaceAt(queries, i, finish("nomore", NoMoreMsg))
                     /\ outbox' = outbox \cup sentFor(finish("nomore", NoMoreMsg))
                     /\ UNCHANGED <<paginationState, conversationHistory, listed, shown>>
           ELSE IF takesListBranch(normalizedQuery, dayFilter, colorFilter, q.isAudio)
           THEN IF Len(filtered) = 0
                THEN /\ queries' = ReplaceAt(queries, i, finish("nomatch", NoMatchMsg))
                     /\ outbox' = outbox \cup sentFor(finish("nomatch", NoMatchMsg))
                     /\ UNCHANGED <<paginationState, conversationHistory, listed, shown>>
                ELSE LET page == buildPaginatedResponse(items, 0, pageSize)
                         done == [finish("list", page.text) EXCEPT
                                     !.prior = prior, !.hasMore = page.hasMore,
                                     !.pageSize = pageSize]
                     IN  /\ paginationState' =
                                pageStored(paginationState, userId, items, page)
                         /\ queries' = ReplaceAt(queries, i, done)
                         /\ outbox' = outbox \cup sentFor(done)
                         /\ listed' = [listed EXCEPT ![userId] =
                                          [items |-> items, pageSize |-> pageSize]]
                         /\ shown' = [shown EXCEPT ![userId] =
                                         << [text |-> page.text,
                                             hasMore |-> page.hasMore] >>]
                         /\ UNCHANGED conversationHistory
           ELSE /\ queries' = ReplaceAt(queries, i,
                       [q EXCEPT !.pc = "completion", !.path = "llm",
                                 !.routeData = <<>>,
                                 !.history = IF userId \in DOMAIN conversationHistory
                                             THEN conversationHistory[userId] ELSE <<>>,
                                 !.llmCalls = @ + 1])
                /\ UNCHANGED <<paginationState, conversationHistory, outbox,
                               listed, shown>>
    /\ UNCHANGED <<accounts, classification, store, now, uploads, reports>>

\* a variant that takes all the text after the first marker
afterMarkerToEnd(text) ==
    LET at == CHOOSE a \in 1..Len(text) :
                  /\ StartsAt(text, a, ReportMarker)
                  /\ \A b \in 1..(a - 1) : ~StartsAt(text, b, ReportMarker)
    IN  From(text, at + Len(ReportMarker))

\* the text between the first marker and the next one (parts[1] of split)
afterMarker(text) ==
    LET at == CHOOSE a \in 1..Len(text) :
                  /\ StartsAt(text, a, ReportMarker)
                  /\ \A b \in 1..(a - 1) : ~StartsAt(text, b, ReportMarker)
        rest == From(text, at + Len(ReportMarker))
    IN  IF Includes(rest, ReportMarker)
        THEN SubSeq(rest, 1, (CHOOSE a \in 1..Len(rest) :
                                 /\ StartsAt(rest, a, ReportMarker)
                                 /\ \A b \in 1..(a - 1) : ~StartsAt(rest, b, ReportMarker)) - 1)
        ELSE rest

reportContentOf(responseText) ==
    LET part == afterMarker(responseText)
    IN  IF part # "" THEN Trim(part) ELSE "Reporte vaci^o"

ReportAck(reportContent) == "[memo] Reporte guardado: \"" \o reportContent \o "\". [!]Gracias!"

\* a variant that records the question before it calls the completion
\* service, and so keeps it when the call fails
QueryCompletionKeepingQuestion(i, content, failed) ==
    /\ i \in 1..Len(queries)
    /\ queries[i].pc = "completion"
    /\ LET q == queries[i]
           responseText == IF content = Null \/ content = "" THEN NoContentMsg ELSE content
           newHistory == q.history \o << [role |-> "user", content |-> q.query],
                                         [role |-> "assistant", content |-> responseText] >>
           isReport == Includes(responseText, ReportMarker)
           reportContent == reportContentOf(responseText)
           done == [q EXCEPT !.pc = "done", !.history = <<>>,
                             !.completion = content,
                             !.path = IF failed THEN "error" ELSE "llm",
                             !.response = IF failed THEN ApologyMsg
                                          ELSE IF isReport THEN ReportAck(reportContent)
                                          ELSE responseText]
       IN  /\ queries' = ReplaceAt(queries, i, done)
           /\ outbox' = outbox \cup sentFor(done)
           /\ IF failed
              THEN /\ conversationHistory' =
                          MapSet(conversationHistory, q.user,
                                 trimHistory(Append(q.history,
                                     [role |-> "user", content |-> q.query])))
                   /\ UNCHANGED reports
              ELSE /\ conversationHistory' =
                          MapSet(conversationHistory, q.user, trimHistory(newHistory))
                   /\ reports' = IF isReport
                                 THEN Append(reports, [content |-> reportContent,
                                                       userId |-> q.user,
                                                       status |-> "pending"])
                                 ELSE reports
    /\ UNCHANGED <<accounts, classification, store, now, uploads, paginationState, listed, shown>>

\* a variant whose answer ends the user's list: the pagination entry goes
QueryCompletionClearingList(i, content, failed) ==
    /\ i \in 1..Len(queries)
    /\ queries[i].pc = "completion"
    /\ LET q == queries[i]
           responseText == IF content = Null \/ content = "" THEN NoContentMsg ELSE content
           newHistory == q.history \o << [role |-> "user", content |-> q.query],
                                         [role |-> "assistant", content |-> responseText] >>
           isReport == Includes(responseText, ReportMarker)
           reportContent == reportContentOf(responseText)
           done == [q EXCEPT !.pc = "done", !.history = <<>>,
                             !.completion = content,
                             !.path = IF failed THEN "error" ELSE "llm",
                             !.response = IF failed THEN ApologyMsg
                                          ELSE IF isReport THEN ReportAck(reportContent)
                                          ELSE responseText]
       IN  /\ queries' = ReplaceAt(queries, i, done)
           /\ outbox' = outbox \cup sentFor(done)
           /\ IF failed
              THEN UNCHANGED <<conversationHistory, reports>>
              ELSE /\ conversationHistory' =
                          MapSet(conversationHistory, q.user, trimHistory(newHistory))
                   /\ reports' = IF isReport
                                 THEN Append(reports, [content |-> reportContent,
                                                       userId |-> q.user,
                                                       status |-> "pending"])
                                 ELSE reports
    /\ paginationState' = MapDelete(paginationState, queries[i].user)
    /\ UNCHANGED <<accounts, classification, store, now, uploads, listed, shown>>

\* the completion service answers (content: a text, or Null for an answer
\* without content) or fails (failed), and processUserQuery runs to its return
QueryCompletion(i, content, failed) ==
    /\ i \in 1..Len(queries)
    /\ queries[i].pc = "completion"
    /\ LET q == queries[i]
           responseText == IF content = Null \/ content = "" THEN NoContentMsg ELSE content
           newHistory == q.history \o << [role |-> "user", content |-> q.query],
                                         [role |-> "assistant", content |-> responseText] >>
           isReport == Includes(responseText, ReportMarker)
           reportContent == reportContentOf(responseText)
           done == [q EXCEPT !.pc = "done", !.history = <<>>,
                             !.completion = content,
                             !.path = IF failed THEN "error" ELSE "llm",
                             !.response = IF failed THEN ApologyMsg
                                          ELSE IF isReport THEN ReportAck(reportContent)
                                          ELSE responseText]
       IN  /\ queries' = ReplaceAt(queries, i, done)
           /\ outbox' = outbox \cup sentFor(done)
           /\ IF failed
              THEN UNCHANGED <<conversationHistory, reports>>
              ELSE /\ conversationHistory' =
                          MapSet(conversationHistory, q.user, trimHistory(newHistory))
                   /\ reports' = IF isReport
                                 THEN Append(reports, [content |-> reportContent,
                                                       userId |-> q.user,
                                                       status |-> "pending"])
                                 ELSE reports
    /\ UNCHANGED <<accounts, classification, store, now, uploads, paginationState, listed, shown>>

\* computeColorInfo(packsActual, getDefaultThresholds(type)): the colour of
\* the count under the minimums of its exhibitor type.
Classify ==
    /\ classification.type # Null
    /\ classification.info = <<>>
    /\ LET thresholds == getDefaultThresholds(classification.type)
       IN  classification' =
               [classification EXCEPT
                   !.thresholds = <<thresholds>>,
                   !.info = <<computeColorInfo(classification.packsActual, thresholds)>>]
    /\ UNCHANGED <<accounts, store, now, uploads, queries, paginationState,
                   conversationHistory, reports, outbox, listed, shown>>

\* computeColorInfo(packsActual, thresholds) under minimums given by the caller.
ClassifyWith(thresholds) ==
    /\ classification.type # Null
    /\ classification.info = <<>>
    /\ classification' =
           [classification EXCEPT
               !.type = "",
               !.thresholds = <<thresholds>>,
               !.info = <<computeColorInfo(classification.packsActual, thresholds)>>]
    /\ UNCHANGED <<accounts, store, now, uploads, queries, paginationState,
                   conversationHistory, reports, outbox, listed, shown>>

\* parseNumber(value) of a cell of the snapshot: `raw` is the cell and `num`
\* the number parsed, Null for null.
Coerce ==
    /\ ~classification.parsed
    /\ classification' = [classification EXCEPT
                              !.parsed = TRUE,
                              !.num = parseNumber(classification.raw)]
    /\ UNCHANGED <<accounts, store, now, uploads, queries, paginationState,
                   conversationHistory, reports, outbox, listed, shown>>

\* ------------------------------------------- the HTTP requests, by steps

\* a request as it arrives: what it carries, where its handler stands (pc),
\* what the handler has read (seen), and the replies sent for it
newRequest(route) ==
    [ route |-> route, pc |-> "start", role |-> Null, email |-> Null,
      code |-> Null, phone |-> Null, text |-> Null, userId |-> Null,
      ref |-> 0, seen |-> <<>>, sent |-> <<>>, replies |-> <<>> ]

\* reply.status(status).send(body), or the value the handler returns, after
\* which the handler has finished
replied(r, status, body) ==
    [r EXCEPT !.pc = "finished",
              !.replies = Append(@, [status |-> status, body |-> body])]

\* the texts of the errors of /auth/register
MissingFieldsMsg == "Todos los campos son obligatorios"
InvalidCodeMsg == "Co^digo de registro inva^lido"
CodeUsedMsg == "Este co^digo de registro ya ha sido utilizado"
EmailTakenMsg == "El email ya esta^ registrado"
CreateUserErrorMsg == "Error al crear usuario"

\* POST /auth/register up to its first database call: a body with a field
\* missing is answered 400 (the other fields of the body are present)
RegisterStart(email, registrationCode) ==
    /\ LET r == [newRequest("/auth/register") EXCEPT
                    !.email = email, !.code = registrationCode]
       IN  requests' = Append(requests,
               IF email = "" \/ registrationCode = ""
               THEN replied(r, 400, MissingFieldsMsg)
               ELSE [r EXCEPT !.pc = "findCode"])
    /\ UNCHANGED <<users, registrationCodes, classification, store, now, uploads,
                   queries, paginationState, conversationHistory, reports, outbox,
                   listed, shown>>

\* await prisma.registrationCode.findUnique({ where: { code } }): an unknown
\* code and a used one are answered 400
RegisterFindCode(n) ==
    /\ n \in 1..Len(requests)
    /\ requests[n].route = "/auth/register" /\ requests[n].pc = "findCode"
    /\ LET r == requests[n]
       IN  requests' = ReplaceAt(requests, n,
               IF r.code \notin DOMAIN registrationCodes
               THEN replied(r, 400, InvalidCodeMsg)
               ELSE IF registrationCodes[r.code].isUsed
               THEN replied(r, 400, CodeUsedMsg)
               ELSE [r EXCEPT !.pc = "findUser",
                              !.seen = <<registrationCodes[r.code]>>])
    /\ UNCHANGED <<users, registrationCodes, classification, store, now, uploads,
                   queries, paginationState, conversationHistory, reports, outbox,
                   listed, shown>>

\* await prisma.user.findUnique({ where: { email } }): a registered email is
\* answered 400
RegisterFindUser(n) ==
    /\ n \in 1..Len(requests)
    /\ requests[n].route = "/auth/register" /\ requests[n].pc = "findUser"
    /\ LET r == requests[n]
       IN  requests' = ReplaceAt(requests, n,
               IF \E u \in DOMAIN users : users[u].email = r.email
               THEN replied(r, 400, EmailTakenMsg)
               ELSE [r EXCEPT !.pc = "transaction"])
    /\ UNCHANGED <<users, registrationCodes, classification, store, now, uploads,
                   queries, paginationState, conversationHistory, reports, outbox,
                   listed, shown>>

\* the id of the next row of the User table
nextUserId == "n" \o IntToStr(Cardinality(DOMAIN users) + 1)

\* prisma.$transaction: tx.user.create, which the unique index on the email
\* rejects for an email registered by now, and, for a code that was not
\* global when it was read, tx.registrationCode.update({ isUsed: true, ... })
registerTransaction(table, codes, r) ==
    IF \E u \in DOMAIN table : table[u].email = r.email
    THEN [ok |-> FALSE, users |-> table, codes |-> codes]
    ELSE [ ok |-> TRUE,
           users |-> MapSet(table, nextUserId,
                        [ email |-> r.email, role |-> "user", whatsappId |-> Null,
                          verificationCode |-> Null, registrationCode |-> r.code ]),
           codes |-> IF r.seen[1].isGlobal THEN codes
                     ELSE [codes EXCEPT ![r.code] =
                              [@ EXCEPT !.isUsed = TRUE, !.usedByUserId = nextUserId]] ]

\* await argon2.hash(password) and await prisma.$transaction(...): the new
\* user is answered, a failed transaction is answered 500
RegisterTransaction(n) ==
    /\ n \in 1..Len(requests)
    /\ requests[n].route = "/auth/register" /\ requests[n].pc = "transaction"
    /\ LET r == requests[n]
           tx == registerTransaction(users, registrationCodes, r)
       IN  /\ users' = tx.users
           /\ registrationCodes' = tx.codes
           /\ requests' = ReplaceAt(requests, n,
                  IF tx.ok THEN replied([r EXCEPT !.userId = nextUserId], 200, "success")
                  ELSE replied(r, 500, CreateUserErrorMsg))
    /\ UNCHANGED <<classification, store, now, uploads, queries, paginationState,
                   conversationHistory, reports, outbox, listed, shown>>

\* what the authenticate hook and the routes of the admin answer
UnauthorizedMsg == "Unauthorized"
NotAdminMsg == "No autorizado"

\* POST /admin/upload-csv of a requester whose token carries `role` (Null:
\* no valid token, which the authenticate hook answers 401): the handler
\* hands the file to processCsvUpload, in the single-header layout, whatever
\* the role
AdminUploadCsv(role, lines) ==
    /\ LET r == [newRequest("/admin/upload-csv") EXCEPT !.role = role]
           records == parse(lines, sniffDelimiter(lines))
           batchId == batchIdAt(now)
           entries == IF Len(records) < MinRows THEN <<>>
                      ELSE routeDataEntries(records, batchId)
       IN  IF role = Null
           THEN /\ requests' = Append(requests, replied(r, 401, UnauthorizedMsg))
                /\ UNCHANGED uploads
           ELSE /\ requests' = Append(requests,
                       [r EXCEPT !.pc = "processCsvUpload", !.ref = Len(uploads) + 1])
                /\ uploads' = Append(uploads,
                       uploadOf("single", lines, Len(records), MinRows, entries,
                                batchId, TooFewRowsMsg))
    /\ UNCHANGED <<users, registrationCodes, classification, store, now, queries,
                   paginationState, conversationHistory, reports, outbox, listed,
                   shown>>

\* processCsvUpload has returned or thrown: the handler answers with its
\* result, or with 500 and the error's text
AdminUploadReply(n) ==
    /\ n \in 1..Len(requests)
    /\ requests[n].route = "/admin/upload-csv"
    /\ requests[n].pc = "processCsvUpload"
    /\ uploads[requests[n].ref].pc \in {"done", "failed"}
    /\ LET u == uploads[requests[n].ref]
       IN  requests' = ReplaceAt(requests, n,
               replied(requests[n], uploadReply(u).status,
                       IF u.pc = "failed" THEN u.error ELSE "success"))
    /\ UNCHANGED <<users, registrationCodes, classification, store, now, uploads,
                   queries, paginationState, conversationHistory, reports, outbox,
                   listed, shown>>

\* GET /admin/users: 403 for a requester who is no admin
AdminUsers(role) ==
    /\ LET r == [newRequest("/admin/users") EXCEPT !.role = role]
       IN  requests' = Append(requests,
               IF role = Null THEN replied(r, 401, UnauthorizedMsg)
               ELSE IF role # "admin" THEN replied(r, 403, NotAdminMsg)
               ELSE replied(r, 200, "users"))
    /\ UNCHANGED <<users, registrationCodes, classification, store, now, uploads,
                   queries, paginationState, conversationHistory, reports, outbox,
                   listed, shown>>

\* POST /user/generate-code of user u: the code drawn replaces the pending one
GenerateCode(u, code) ==
    /\ u \in DOMAIN users
    /\ users' = [users EXCEPT ![u].verificationCode = code]
    /\ requests' = Append(requests,
           replied([newRequest("/user/generate-code") EXCEPT
                       !.userId = u, !.email = users[u].email, !.code = code],
                   200, "success"))
    /\ UNCHANGED <<registrationCodes, classification, store, now, uploads, queries,
                   paginationState, conversationHistory, reports, outbox, listed,
                   shown>>

\* the texts that handleLinking sends
InvalidLinkMsg == "[x] Co^digo inva^lido o expirado. Por favor genera uno nuevo en el panel web."
LinkedMsg(name) == "[ok] [!]Vinculacio^n exitosa! Hola " \o name \o "."
LinkErrorMsg == "[x] Error interno al vincular. Intenta ma^s tarde."

\* sendWazendMessage(r.phone, text) of the handler of request r
messaged(r, text) == [r EXCEPT !.sent = Append(@, text)]

\* the handler of request r has returned without a reply
returned(r) == [r EXCEPT !.pc = "returned"]

\* the webhook from `text = text.trim()` to its next database call
dispatched(r, text) ==
    IF Trim(text) = "" THEN replied([r EXCEPT !.text = ""], 200, "ok")
    ELSE IF StartsWith(Trim(text), "#Mondi-")
    THEN [r EXCEPT !.text = Trim(text), !.pc = "findFirst"]
    ELSE [r EXCEPT !.text = Trim(text), !.pc = "findUnique"]

\* POST /webhook/wazend up to its first await. The payload tells the event,
\* whether it holds a message (valid), and of the message: fromMe, isGroup,
\* the phone of its sender, whether it is a voice note (audio), and its text
\* (for a voice note, what the recording says).
WebhookReceive(payload) ==
    /\ LET r == [newRequest("/webhook/wazend") EXCEPT
                    !.phone = payload.phone, !.text = payload.body]
       IN  requests' = Append(requests,
               IF payload.event # Null /\ payload.event # "messages.upsert"
               THEN replied(r, 200, "ok")
               ELSE IF ~payload.valid THEN replied(r, 200, "ok")
               ELSE IF payload.fromMe THEN replied(r, 200, "ok")
               ELSE IF payload.isGroup THEN replied(r, 200, "ok")
               ELSE IF payload.phone = "" THEN replied(r, 200, "ok")
               ELSE IF payload.audio THEN [r EXCEPT !.pc = "transcribeAudio"]
               ELSE dispatched(r, payload.body))
    /\ UNCHANGED <<users, registrationCodes, classification, store, now, uploads,
                   queries, paginationState, conversationHistory, reports, outbox,
                   listed, shown>>

\* await transcribeAudio(url): the transcript, or "" when it fails
WebhookTranscribed(n, transcribed) ==
    /\ n \in 1..Len(requests)
    /\ requests[n].route = "/webhook/wazend" /\ requests[n].pc = "transcribeAudio"
    /\ requests' = ReplaceAt(requests, n,
           dispatched(requests[n], IF transcribed THEN requests[n].text ELSE ""))
    /\ UNCHANGED <<users, registrationCodes, classification, store, now, uploads,
                   queries, paginationState, conversationHistory, reports, outbox,
                   listed, shown>>

\* handleLinking: await prisma.user.findFirst({ where: { verificationCode } }).
\* No such user: the sender is told so and the request answered.  Otherwise
\* the handler goes on to the update of the user found.
LinkFind(n) ==
    /\ n \in 1..Len(requests)
    /\ requests[n].route = "/webhook/wazend" /\ requests[n].pc = "findFirst"
    /\ LET r == requests[n]
           holders == {u \in DOMAIN users : users[u].verificationCode = r.text}
       IN  IF holders = {}
           THEN /\ requests' = ReplaceAt(requests, n,
                       replied(messaged(r, InvalidLinkMsg), 200, "ok"))
                /\ outbox' = outbox \cup {[to |-> r.phone, text |-> InvalidLinkMsg]}
           ELSE /\ \E u \in holders :
                       requests' = ReplaceAt(requests, n,
                                       [r EXCEPT !.pc = "update", !.userId = u])
                /\ UNCHANGED outbox
    /\ UNCHANGED <<users, registrationCodes, classification, store, now, uploads,
                   queries, paginationState, conversationHistory, reports, listed,
                   shown>>

\* the name handleLinking greets: user.name || 'Vendedor'
linkedName(u) ==
    IF u \in UserIds /\ UserTable[u].name # "" THEN UserTable[u].name ELSE "Vendedor"

\* handleLinking: await prisma.user.update({ where: { id }, data: { whatsappId,
\* verificationCode: null } }), which the unique index on whatsappId rejects
\* for a phone that another user is linked to; the sender is told of the
\* link, or of the error, and handleLinking and the handler return
LinkUpdate(n) ==
    /\ n \in 1..Len(requests)
    /\ requests[n].route = "/webhook/wazend" /\ requests[n].pc = "update"
    /\ LET r == requests[n]
           taken == \E u \in DOMAIN users \ {r.userId} : users[u].whatsappId = r.phone
           text == IF taken THEN LinkErrorMsg ELSE LinkedMsg(linkedName(r.userId))
       IN  /\ users' = IF taken THEN users
                       ELSE [users EXCEPT ![r.userId].whatsappId = r.phone,
                                          ![r.userId].verificationCode = Null]
           /\ requests' = ReplaceAt(requests, n, returned(messaged(r, text)))
           /\ outbox' = outbox \cup {[to |-> r.phone, text |-> text]}
    /\ UNCHANGED <<registrationCodes, classification, store, now, uploads, queries,
                   paginationState, conversationHistory, reports, listed, shown>>

\* the handler's promise has resolved with no value and no reply sent: the
\* framework answers with an empty 200 (answered), or logs an error and
\* sends nothing, depending on its version
HandlerReturned(n, answered) ==
    /\ n \in 1..Len(requests)
    /\ requests[n].pc = "returned"
    /\ requests' = ReplaceAt(requests, n,
           IF answered THEN replied([requests[n] EXCEPT !.seen = <<"framework">>], 200, "")
           ELSE [requests[n] EXCEPT !.pc = "finished"])
    /\ UNCHANGED <<users, registrationCodes, classification, store, now, uploads,
                   queries, paginationState, conversationHistory, reports, outbox,
                   listed, shown>>

\* await prisma.user.findUnique({ where: { whatsappId } }): the text of a
\* linked user goes to processUserQuery, whose answer sendWazendMessage
\* sends; an unknown number is told so and the request answered
ChatFind(n) ==
    /\ n \in 1..Len(requests)
    /\ requests[n].route = "/webhook/wazend" /\ requests[n].pc = "findUnique"
    /\ LET r == requests[n]
           linked == {u \in DOMAIN users : users[u].whatsappId = r.phone}
           userId == CHOOSE u \in linked : TRUE
           q == newQuery(userId, r.text, FALSE, FALSE, r.phone)
       IN  IF linked = {}
           THEN /\ requests' = ReplaceAt(requests, n,
                       replied(messaged(r, UnknownNumberMsg), 200, "ok"))
                /\ outbox' = outbox \cup {[to |-> r.phone, text |-> UnknownNumberMsg]}
                /\ UNCHANGED queries
           ELSE /\ queries' = Append(queries, q)
                /\ outbox' = outbox \cup sentFor(q)
                /\ requests' = ReplaceAt(requests, n,
                       [r EXCEPT !.pc = "processUserQuery", !.userId = userId,
                                 !.ref = Len(queries) + 1])
    /\ UNCHANGED <<users, registrationCodes, classification, store, now, uploads,
                   paginationState, conversationHistory, reports, listed, shown>>

\* the database call of the chat path throws: the handler's catch answers 500
ChatFindFails(n) ==
    /\ n \in 1..Len(requests)
    /\ requests[n].route = "/webhook/wazend" /\ requests[n].pc = "findUnique"
    /\ requests' = ReplaceAt(requests, n, replied(requests[n], 500, "error"))
    /\ UNCHANGED <<users, registrationCodes, classification, store, now, uploads,
                   queries, paginationState, conversationHistory, reports, outbox,
                   listed, shown>>

\* processUserQuery has returned and its answer is sent: the request is
\* answered
ChatAnswered(n) ==
    /\ n \in 1..Len(requests)
    /\ requests[n].route = "/webhook/wazend" /\ requests[n].pc = "processUserQuery"
    /\ queries[requests[n].ref].pc = "done"
    /\ requests' = ReplaceAt(requests, n,
           replied(messaged(requests[n], queries[requests[n].ref].response), 200, "ok"))
    /\ UNCHANGED <<users, registrationCodes, classification, store, now, uploads,
                   queries, paginationState, conversationHistory, reports, outbox,
                   listed, shown>>

\* ------------------------------------------------ inputs and specifications

\* the calls of processUserQuery that have not returned
InFlight == Cardinality({i \in 1..Len(queries) : queries[i].pc # "done"})

\* `today` matters to a query that says "hoy" only
Todays(i) ==
    IF Includes(normalizeText(queries[i].query), "hoy")
    THEN {WeekdayNames[d] : d \in 1..Len(WeekdayNames)}
    ELSE {WeekdayNames[1]}

\* uploads: a snapshot of four clients on two routes and a row without a
\* client code; a snapshot of one client, delimited by semicolons; a file of
\* a header alone; a file whose only row names route 0
FileA ==
    << "RUTA,COD_CLIENTE,NOMBRE_CLIENTE,DIA_VISITA,EXHIBIDOR_KIWES,COLOR_ACTUAL_KIWES,PACKS_VENDIDOS_KIWES",
       "R1,C1,Juan,Lunes,Kx2,ROJO,3",
       "R1,C2,Rosa,Martes,Kx2,VERDE,12",
       "R2,C3,Luz,Lunes,Kx3,ROJO,2",
       "R1,C4,Raul,Martes,Kx2,ROJO,4",
       "R1,,Sin codigo,Lunes,Kx2,ROJO,1" >>
FileB ==
    << "Ruta;Cod Cliente;Nombre Cliente;Dia Visita;EXHIBIDOR_KIWES;COLOR_ACTUAL_KIWES",
       "R1; C9 ;Eva;Lunes;Kx2;ROJO" >>
FileHeaderOnly == << "RUTA,COD_CLIENTE,NOMBRE_CLIENTE,DIA_VISITA" >>
FileRouteZero == << "RUTA,COD_CLIENTE,NOMBRE_CLIENTE,DIA_VISITA", "0,C5,Leo,Lunes" >>

\* the table an upload of `lines` at time t leaves
tableOf(lines, t) ==
    createMany(<<>>, routeDataEntries(parse(lines, sniffDelimiter(lines)), batchIdAt(t)), t)

\* what the completion service answers
Completions == {"Tienes 2 clientes.", "REPORT_DETECTED: cliente cerrado"}

\* The steps of the calls in flight
QuerySteps ==
    \/ \E i \in 1..Len(queries) : QueryRead(i)
    \/ \E i \in 1..Len(queries) : \E today \in Todays(i) : QueryResolve(i, today)
    \/ \E i \in 1..Len(queries), content \in Completions :
           QueryCompletion(i, content, FALSE)
    \/ \E i \in 1..Len(queries) : QueryCompletion(i, Null, TRUE)

\* -- Spec: the query operation and the webhook over a store that is empty
\*    at first and then holds the snapshot of one upload

\* query texts: a list two clients at a time, a continuation, a question with
\* no intent, a weekday alone
QueryTexts == {"dos clientes", "ver ma^s", "hola", "lunes"}

\* webhook messages: a voice note and a text of u1, a text of an unknown number
WebhookMessages ==
    { [phone |-> "51900000001", audio |-> TRUE, body |-> "dos clientes "],
      [phone |-> "51900000001", audio |-> FALSE, body |-> "Ver  mas"],
      [phone |-> "51999999999", audio |-> FALSE, body |-> "hola"] }

\* no session yet; the store is empty or holds the snapshot of FileA
Init ==
    /\ now = 0
    /\ store \in {<<>>, tableOf(FileA, 0)}
    /\ uploads = <<>>
    /\ queries = <<>>
    /\ paginationState = EmptyMap
    /\ conversationHistory = EmptyMap
    /\ reports = <<>>
    /\ outbox = {}
    /\ listed = [u \in UserIds |-> [items |-> <<>>, pageSize |-> 0]]
    /\ shown = [u \in UserIds |-> <<>>]
    /\ users = UserAccounts
    /\ registrationCodes = CodesAtStart
    /\ requests = <<>>
    /\ classification = Unclassified

Next ==
    \/ /\ Len(queries) < MaxQueries /\ InFlight < MaxInFlight
       /\ \E userId \in {"u1", "u3"}, query \in QueryTexts, isAudio \in BOOLEAN :
              DirectQuery(userId, query, isAudio)
    \/ /\ Len(queries) < MaxQueries /\ InFlight < MaxInFlight
       /\ \E msg \in WebhookMessages, transcribed \in BOOLEAN : Webhook(msg, transcribed)
    \/ QuerySteps

Spec == Init /\ [][Next]_vars

\* -- SpecUpload: uploads that interleave with each other and with a reader

NextUpload ==
    \/ Tick
    \/ /\ Len(uploads) < MaxUploads
       /\ \E lines \in {FileA, FileB, FileHeaderOnly, FileRouteZero} : UploadStart(lines)
    \/ \E k \in 1..Len(uploads) : UploadDelete(k)
    \/ \E k \in 1..Len(uploads) : UploadInsert(k)
    \/ Len(queries) < MaxReads /\ DirectQuery("u1", "hola", FALSE)
    \/ \E i \in 1..Len(queries) : QueryRead(i)
    \/ \E i \in 1..Len(queries) : QueryResolve(i, WeekdayNames[1])
    \/ \E i \in 1..Len(queries) : QueryCompletion(i, "Tienes 2 clientes.", FALSE)

\* an upload of FileA completed at time 0, and it is now time 1
PriorSnapshot == tableOf(FileA, 0)

InitUpload ==
    /\ now = 1
    /\ store = PriorSnapshot
    /\ uploads = <<>>
    /\ queries = <<>>
    /\ paginationState = EmptyMap
    /\ conversationHistory = EmptyMap
    /\ reports = <<>>
    /\ outbox = {}
    /\ listed = [u \in UserIds |-> [items |-> <<>>, pageSize |-> 0]]
    /\ shown = [u \in UserIds |-> <<>>]
    /\ users = UserAccounts
    /\ registrationCodes = CodesAtStart
    /\ requests = <<>>
    /\ classification = Unclassified

SpecUpload == InitUpload /\ [][NextUpload]_vars

\* -- SpecPaging: lists and continuations over a snapshot of MaxClients red
\*    clients and two green ones on route R1, and one red client on route R2

PagingFile ==
    << "RUTA,COD_CLIENTE,NOMBRE_CLIENTE,DIA_VISITA,EXHIBIDOR_KIWES,COLOR_ACTUAL_KIWES,PACKS_VENDIDOS_KIWES" >>
    \o [n \in 1..MaxClients |->
           "R1,C" \o IntToStr(n) \o ",Cliente " \o IntToStr(n) \o ",Lunes,Kx2,ROJO,"
               \o IntToStr(n % 8)]
    \o << "R1,V1,Vera,Martes,Kx3,VERDE,14",
          "R1,V2,Vito,Martes,Kx3,VERDE,15",
          "R2,Z1,Zoe,Lunes,Kx2,ROJO,4" >>

\* lists of all red clients, of every client two at a time, of three green
\* clients (there are two), of the black ones (there is none), and the
\* continuation
PagingTexts == {"dame los rojos", "dos clientes", "3 clientes verdes", "negros", "Ver mas"}

NextPaging ==
    \/ /\ Len(queries) < MaxPagingQueries /\ InFlight < MaxInFlight
       /\ \E query \in PagingTexts : DirectQuery("u1", query, FALSE)
    \/ \E i \in 1..Len(queries) : QueryRead(i)
    \/ \E i \in 1..Len(queries) : QueryResolve(i, WeekdayNames[1])

InitPaging ==
    /\ now = 0
    /\ store = tableOf(PagingFile, 0)
    /\ uploads = <<>>
    /\ queries = <<>>
    /\ paginationState = EmptyMap
    /\ conversationHistory = EmptyMap
    /\ reports = <<>>
    /\ outbox = {}
    /\ listed = [u \in UserIds |-> [items |-> <<>>, pageSize |-> 0]]
    /\ shown = [u \in UserIds |-> <<>>]
    /\ users = UserAccounts
    /\ registrationCodes = CodesAtStart
    /\ requests = <<>>
    /\ classification = Unclassified

SpecPaging == InitPaging /\ [][NextPaging]_vars

\* -- SpecHistory: questions answered by the completion service, after any
\*    number of earlier exchanges of u1

\* the history n earlier exchanges leave (n <= HistoryCap / 2, so none was
\* trimmed)
RECURSIVE PastHistory(_)
PastHistory(n) ==
    IF n = 0 THEN <<>>
    ELSE PastHistory(n - 1)
             \o << [role |-> "user", content |-> "consulta " \o IntToStr(n)],
                   [role |-> "assistant", content |-> "respuesta " \o IntToStr(n)] >>

InitHistory ==
    /\ now = 0
    /\ uploads = <<>>
    /\ queries = <<>>
    /\ paginationState = EmptyMap
    /\ \E n \in 0..(HistoryCap \div 2) :
           conversationHistory = IF n = 0 THEN EmptyMap
                                 ELSE MapSet(EmptyMap, "u1", PastHistory(n))
    /\ reports = <<>>
    /\ outbox = {}
    /\ listed = [u \in UserIds |-> [items |-> <<>>, pageSize |-> 0]]
    /\ shown = [u \in UserIds |-> <<>>]
    /\ users = UserAccounts
    /\ registrationCodes = CodesAtStart
    /\ requests = <<>>
    /\ classification = Unclassified
    /\ store = tableOf(FileA, 0)

NextHistory ==
    \/ /\ Len(queries) < MaxTurns /\ InFlight < MaxInFlight
       /\ \E query \in {"hola", "cuanto vendi"} : DirectQuery("u1", query, FALSE)
    \/ \E i \in 1..Len(queries) : QueryRead(i)
    \/ \E i \in 1..Len(queries) : QueryResolve(i, WeekdayNames[1])
    \/ \E i \in 1..Len(queries), content \in Completions :
           QueryCompletion(i, content, FALSE)
    \/ \E i \in 1..Len(queries) : QueryCompletion(i, Null, TRUE)

SpecHistory == InitHistory /\ [][NextHistory]_vars

\* -- SpecLayouts: one upload after another over a prior snapshot, each with
\*    processCsvUpload in one of its three layouts

MaxLayoutUploads == 1

\* single header row: the file of scenario A; a file whose rows leave cells
\* empty or out
FileScenarioA == << "RUTA,COD_CLIENTE,NOMBRE_CLIENTE,DIA_VISITA", "R1,C1,Juan,Lunes" >>
FileSparse ==
    << "RUTA,COD_CLIENTE,NOMBRE_CLIENTE,DIA_VISITA,EXHIBIDOR_KIWES,,COLOR_ACTUAL_KIWES",
       "R1,C1,Juan,Lunes,,x,ROJO",
       "R1,C2,Rosa,Martes,Kx2" >>
SingleRowFiles ==
    {FileA, FileB, FileHeaderOnly, FileRouteZero, FileScenarioA, FileSparse, <<>>}

\* the ten columns before the categories begin
TenBlank == ",,,,,,,,,,"

\* two rows of headers: a snapshot of one client with a row without a client
\* code; the same with a client on route 0; a file of the two header rows
TwoRowHeaders ==
    << TenBlank \o "KIWE,,LEGO",
       "mesa,RUTA LO^GICA,COD CLIENTE,NOMBRE CLIENTE,DIA V,,,,,,Kx2,NEGRO,Lx6" >>
TwoRowA ==
    TwoRowHeaders \o << "1,R1,C1,Juan,Lunes,,,,,,5,,3", "1,R1,,Sin codigo,Lunes,,,,,,1,1,1" >>
TwoRowRouteZero ==
    TwoRowHeaders \o << "1,R1,C1,Juan,Lunes,,,,,,5,,3", "1,0,C2,Rosa,Martes,,,,,,2,0,1" >>
TwoRowFiles == {TwoRowA, TwoRowRouteZero, TwoRowHeaders, <<>>}

\* three rows of headers, the category cells of columns 11 and 12 and the
\* header of column 12 varying; the core headers are in the header row, so
\* the fallback row names no route and no client
CategoryCells == {"", "ACTUAL", " Necesidad", "LEGO x"}
ThreeRowHeaders(c11, c12, h12) ==
    << TenBlank \o "KIWE," \o c11 \o "," \o c12,
       "mesa,RUTA LOGICA,COD CLIENTE,NOMBRE CLIENTE,DIA V,,,,,,Kx2,," \o h12,
       TenBlank \o ",Kx3,Libre" >>
ThreeRowWith(c11, c12, h12) ==
    ThreeRowHeaders(c11, c12, h12)
        \o << "1,R1,C1,Juan,Lunes,,,,,,5,Rojo,3", "1,,C2,Rosa,Martes,,,,,,2,0,1" >>
\* no category before column 12, whose category cell is a marker
ThreeRowNoCategory ==
    << TenBlank \o ",,ACTUAL",
       "mesa,RUTA LOGICA,COD CLIENTE,NOMBRE CLIENTE,DIA V,,,,,,Kx2,Kx3,Packs",
       TenBlank \o ",,",
       "1,R1,C1,Juan,Lunes,,,,,,5,0,3" >>
\* the core headers of route and client come from the fallback row
ThreeRowFallbackCore ==
    << TenBlank \o "KIWE,,ACTUAL",
       "mesa,,,NOMBRE CLIENTE,DIA V,,,,,,Kx2,Kx3,Packs",
       ",RUTA LOGICA,COD CLIENTE,,,,,,,,,," >>
ThreeRowFiles ==
    {ThreeRowWith(c11, c12, h12) : c11 \in CategoryCells, c12 \in CategoryCells,
                                   h12 \in {"Packs", "Negro"}}
        \cup {ThreeRowHeaders("", "ACTUAL", "Packs"), ThreeRowNoCategory,
              ThreeRowFallbackCore,
              << TenBlank \o "KIWE", "mesa,RUTA LOGICA,COD CLIENTE" >>}

NextLayouts ==
    \/ /\ Len(uploads) < MaxLayoutUploads
       /\ \E lines \in SingleRowFiles : UploadStart(lines)
    \/ /\ Len(uploads) < MaxLayoutUploads
       /\ \E lines \in TwoRowFiles : UploadStartTwoRow(lines)
    \/ /\ Len(uploads) < MaxLayoutUploads
       /\ \E lines \in ThreeRowFiles : UploadStartThreeRow(lines)
    \/ \E k \in 1..Len(uploads) : UploadDelete(k)
    \/ \E k \in 1..Len(uploads) : UploadInsert(k)

\* an upload of FileA completed at time 0, and it is now time 1
InitLayouts ==
    /\ now = 1
    /\ store = PriorSnapshot
    /\ uploads = <<>>
    /\ queries = <<>>
    /\ paginationState = EmptyMap
    /\ conversationHistory = EmptyMap
    /\ reports = <<>>
    /\ outbox = {}
    /\ listed = [u \in UserIds |-> [items |-> <<>>, pageSize |-> 0]]
    /\ shown = [u \in UserIds |-> <<>>]
    /\ users = UserAccounts
    /\ registrationCodes = CodesAtStart
    /\ requests = <<>>
    /\ classification = Unclassified

SpecLayouts == InitLayouts /\ [][NextLayouts]_vars

\* -- SpecReports: questions of u1 and u2 that the completion service answers
\*    with plain text, with a report, or with nothing

\* answers of the completion service: plain text; a report; the marker with
\* nothing after it; two markers; an empty text; no content
ReportCompletions ==
    { "Tienes 2 clientes.",
      "REPORT_DETECTED: cliente cerrado ",
      "REPORT_DETECTED:",
      "Anotado. REPORT_DETECTED: local cerrado REPORT_DETECTED: sin stock",
      "",
      Null }

NextReports ==
    \/ /\ Len(queries) < MaxTurns /\ InFlight < MaxInFlight
       /\ \E userId \in {"u1", "u2"} : DirectQuery(userId, "hola", FALSE)
    \/ \E i \in 1..Len(queries) : QueryRead(i)
    \/ \E i \in 1..Len(queries) : QueryResolve(i, WeekdayNames[1])
    \/ \E i \in 1..Len(queries), content \in ReportCompletions :
           QueryCompletion(i, content, FALSE)
    \/ \E i \in 1..Len(queries) : QueryCompletion(i, Null, TRUE)

InitReports ==
    /\ now = 0
    /\ store = tableOf(FileA, 0)
    /\ uploads = <<>>
    /\ queries = <<>>
    /\ paginationState = EmptyMap
    /\ conversationHistory = EmptyMap
    /\ reports = <<>>
    /\ outbox = {}
    /\ listed = [u \in UserIds |-> [items |-> <<>>, pageSize |-> 0]]
    /\ shown = [u \in UserIds |-> <<>>]
    /\ users = UserAccounts
    /\ registrationCodes = CodesAtStart
    /\ requests = <<>>
    /\ classification = Unclassified

SpecReports == InitReports /\ [][NextReports]_vars

\* -- SpecClassifier: one count, unknown or from MaxReturned packs returned
\* to MaxPacks packs sold, of a client of each exhibitor type, classified
\* under the minimums of the type or under minimums of the caller's.
ExhibidorTypes == {"K2", "K3", "L6", "L9", "MK", "K4"}

PackCounts == {<<>>} \cup {<<n>> : n \in (0 - MaxReturned)..MaxPacks}

CallerThresholds ==
    { [rojoMin |-> 3, amarilloMin |-> 5, verdeMin |-> 5],
      [rojoMin |-> 1, amarilloMin |-> 9, verdeMin |-> 6] }

NextClassifier ==
    \/ Classify
    \/ \E thresholds \in CallerThresholds : ClassifyWith(thresholds)

InitClassifier ==
    /\ now = 0
    /\ store = <<>>
    /\ uploads = <<>>
    /\ queries = <<>>
    /\ paginationState = EmptyMap
    /\ conversationHistory = EmptyMap
    /\ reports = <<>>
    /\ outbox = {}
    /\ listed = [u \in UserIds |-> [items |-> <<>>, pageSize |-> 0]]
    /\ shown = [u \in UserIds |-> <<>>]
    /\ users = UserAccounts
    /\ registrationCodes = CodesAtStart
    /\ requests = <<>>
    /\ classification \in
           [packsActual : PackCounts, type : ExhibidorTypes,
            thresholds : {<<>>}, info : {<<>>}]

SpecClassifier == InitClassifier /\ [][NextClassifier]_vars

\* -- SpecCoercion: one cell of a snapshot, absent or a text of up to
\* MaxCellLen characters out of digits, sign, point, letter and space, parsed.
CellChars == {"0", "7", "-", ".", "x", " "}

RECURSIVE CellTexts(_)
CellTexts(n) ==
    IF n = 0 THEN {""}
    ELSE CellTexts(n - 1) \cup {t \o c : t \in CellTexts(n - 1), c \in CellChars}

NextCoercion == Coerce

InitCoercion ==
    /\ now = 0
    /\ store = <<>>
    /\ uploads = <<>>
    /\ queries = <<>>
    /\ paginationState = EmptyMap
    /\ conversationHistory = EmptyMap
    /\ reports = <<>>
    /\ outbox = {}
    /\ listed = [u \in UserIds |-> [items |-> <<>>, pageSize |-> 0]]
    /\ shown = [u \in UserIds |-> <<>>]
    /\ users = UserAccounts
    /\ registrationCodes = CodesAtStart
    /\ requests = <<>>
    /\ classification \in
           [raw : CellTexts(MaxCellLen) \cup {Null}, parsed : {FALSE}, num : {Null}]

SpecCoercion == InitCoercion /\ [][NextCoercion]_vars

\* -- SpecSessions: u1 and u2, each with three red clients on the route, ask
\* for lists of two, for more, for a colour nobody has, and questions that the
\* completion service answers or fails to answer.
SessionsFile ==
    << "RUTA,COD_CLIENTE,NOMBRE_CLIENTE,DIA_VISITA,EXHIBIDOR_KIWES,COLOR_ACTUAL_KIWES,PACKS_VENDIDOS_KIWES",
       "R1,C1,Juan,Lunes,Kx2,ROJO,3",
       "R1,C2,Rosa,Martes,Kx2,ROJO,2",
       "R1,C3,Raul,Martes,Kx2,ROJO,4",
       "R2,Z1,Zoe,Lunes,Kx2,ROJO,4",
       "R2,Z2,Luz,Lunes,Kx3,ROJO,2",
       "R2,Z3,Leo,Martes,Kx3,ROJO,5" >>

SessionsTexts == {"dos clientes", "Ver mas", "negros", "hola"}

NextSessions ==
    \/ /\ Len(queries) < MaxSessionQueries /\ InFlight < MaxInFlight
       /\ \E userId \in {"u1", "u2"}, query \in SessionsTexts :
              DirectQuery(userId, query, FALSE)
    \/ \E i \in 1..Len(queries) : QueryRead(i)
    \/ \E i \in 1..Len(queries) : QueryResolve(i, WeekdayNames[1])
    \/ \E i \in 1..Len(queries) : QueryCompletion(i, "Hola, Ana", FALSE)
    \/ \E i \in 1..Len(queries) : QueryCompletion(i, Null, TRUE)

InitSessions ==
    /\ now = 0
    /\ store = tableOf(SessionsFile, 0)
    /\ uploads = <<>>
    /\ queries = <<>>
    /\ paginationState = EmptyMap
    /\ conversationHistory = EmptyMap
    /\ reports = <<>>
    /\ outbox = {}
    /\ listed = [u \in UserIds |-> [items |-> <<>>, pageSize |-> 0]]
    /\ shown = [u \in UserIds |-> <<>>]
    /\ users = UserAccounts
    /\ registrationCodes = CodesAtStart
    /\ requests = <<>>
    /\ classification = Unclassified

SpecSessions == InitSessions /\ [][NextSessions]_vars

\* -- SpecKeys: one upload, in the single-header or the three-row layout, of a
\* file with one column whose header is a text of up to MaxKeyLen characters
\* out of letters, space, slash and underscore; in the three-row layout the
\* column is the eleventh and its category cell holds the same text.
KeyChars == {"a", "B", " ", "/", "_"}

RECURSIVE KeyTexts(_)
KeyTexts(n) ==
    IF n = 0 THEN {""}
    ELSE KeyTexts(n - 1) \cup {t \o c : t \in KeyTexts(n - 1), c \in KeyChars}

KeyFile(header) ==
    << "RUTA,COD_CLIENTE,NOMBRE_CLIENTE,DIA_VISITA," \o header,
       "R1,C1,Juan,Lunes,5" >>

KeyFileThreeRow(header) ==
    << TenBlank \o header,
       "mesa,RUTA LOGICA,COD CLIENTE,NOMBRE CLIENTE,DIA V,,,,,," \o header,
       TenBlank,
       "1,R1,C1,Juan,Lunes,,,,,,5" >>

NextKeys ==
    \/ /\ uploads = <<>>
       /\ \E header \in KeyTexts(MaxKeyLen) : UploadStart(KeyFile(header))
    \/ /\ uploads = <<>>
       /\ \E header \in KeyTexts(MaxKeyLen) :
              UploadStartThreeRow(KeyFileThreeRow(header))
    \/ \E k \in 1..Len(uploads) : UploadDelete(k)
    \/ \E k \in 1..Len(uploads) : UploadInsert(k)

InitKeys ==
    /\ now = 1
    /\ store = <<>>
    /\ uploads = <<>>
    /\ queries = <<>>
    /\ paginationState = EmptyMap
    /\ conversationHistory = EmptyMap
    /\ reports = <<>>
    /\ outbox = {}
    /\ listed = [u \in UserIds |-> [items |-> <<>>, pageSize |-> 0]]
    /\ shown = [u \in UserIds |-> <<>>]
    /\ users = UserAccounts
    /\ registrationCodes = CodesAtStart
    /\ requests = <<>>
    /\ classification = Unclassified

SpecKeys == InitKeys /\ [][NextKeys]_vars

\* -- SpecReplace: u1 asks for a list of two and for more while an upload
\* replaces the snapshot that the list was made from.
ReplaceTexts == {"dos clientes", "Ver mas"}

NextReplace ==
    \/ /\ Len(uploads) < MaxLayoutUploads
       /\ \E lines \in {FileA, FileB} : UploadStart(lines)
    \/ \E k \in 1..Len(uploads) : UploadDelete(k)
    \/ \E k \in 1..Len(uploads) : UploadInsert(k)
    \/ /\ Len(queries) < MaxTurns /\ InFlight < MaxInFlight
       /\ \E query \in ReplaceTexts : DirectQuery("u1", query, FALSE)
    \/ \E i \in 1..Len(queries) : QueryRead(i)
    \/ \E i \in 1..Len(queries) : QueryResolve(i, WeekdayNames[1])

InitReplace ==
    /\ now = 1
    /\ store = PriorSnapshot
    /\ uploads = <<>>
    /\ queries = <<>>
    /\ paginationState = EmptyMap
    /\ conversationHistory = EmptyMap
    /\ reports = <<>>
    /\ outbox = {}
    /\ listed = [u \in UserIds |-> [items |-> <<>>, pageSize |-> 0]]
    /\ shown = [u \in UserIds |-> <<>>]
    /\ users = UserAccounts
    /\ registrationCodes = CodesAtStart
    /\ requests = <<>>
    /\ classification = Unclassified

SpecReplace == InitReplace /\ [][NextReplace]_vars

\* -- SpecUploadFailure: uploads over a prior snapshot whose bulk insert the
\* database may reject.
NextUploadFailure ==
    \/ Tick
    \/ /\ Len(uploads) < MaxUploads
       /\ \E lines \in {FileA, FileB, FileHeaderOnly} : UploadStart(lines)
    \/ \E k \in 1..Len(uploads) : UploadDelete(k)
    \/ \E k \in 1..Len(uploads) : UploadInsert(k)
    \/ \E k \in 1..Len(uploads) : UploadInsertFails(k)

InitUploadFailure ==
    /\ now = 1
    /\ store = PriorSnapshot
    /\ uploads = <<>>
    /\ queries = <<>>
    /\ paginationState = EmptyMap
    /\ conversationHistory = EmptyMap
    /\ reports = <<>>
    /\ outbox = {}
    /\ listed = [u \in UserIds |-> [items |-> <<>>, pageSize |-> 0]]
    /\ shown = [u \in UserIds |-> <<>>]
    /\ users = UserAccounts
    /\ registrationCodes = CodesAtStart
    /\ requests = <<>>
    /\ classification = Unclassified

SpecUploadFailure == InitUploadFailure /\ [][NextUploadFailure]_vars

\* -- SpecFilter: u1 asks, one query after the other, for lists by day and
\* by colour over a route of four clients of three days and three colours,
\* or over a store that holds nothing.
FilterFile ==
    << "RUTA,COD_CLIENTE,NOMBRE_CLIENTE,DIA_VISITA,EXHIBIDOR_KIWES,COLOR_ACTUAL_KIWES,PACKS_VENDIDOS_KIWES",
       "R1,C1,Juan,Lunes,Kx2,ROJO,3",
       "R1,C2,Rosa,Martes,Kx2,VERDE,12",
       "R1,C3,Raul,Mie^rcoles,Kx2,ROJO,4",
       "R1,C4,Eva,Lunes,Kx2,AMARILLO,7",
       "R2,Z1,Zoe,Lunes,Kx2,NEGRO,0" >>

FilterTexts ==
    {"dos clientes", "rojos", "lunes", "rojos del lunes", "verdes del lunes",
     "negros", "clientes de hoy", "Ver mas"}

NextFilter ==
    \/ /\ Len(queries) < MaxPagingQueries /\ InFlight = 0
       /\ \E query \in FilterTexts : DirectQuery("u1", query, FALSE)
    \/ \E i \in 1..Len(queries) : QueryRead(i)
    \/ \E i \in 1..Len(queries) : \E today \in Todays(i) : QueryResolve(i, today)

InitFilter ==
    /\ now = 0
    /\ store \in {<<>>, tableOf(FilterFile, 0)}
    /\ uploads = <<>>
    /\ queries = <<>>
    /\ paginationState = EmptyMap
    /\ conversationHistory = EmptyMap
    /\ reports = <<>>
    /\ outbox = {}
    /\ listed = [u \in UserIds |-> [items |-> <<>>, pageSize |-> 0]]
    /\ shown = [u \in UserIds |-> <<>>]
    /\ users = UserAccounts
    /\ registrationCodes = CodesAtStart
    /\ requests = <<>>
    /\ classification = Unclassified

SpecFilter == InitFilter /\ [][NextFilter]_vars

\* -- SpecDuplicates: one upload, in any of the three layouts, of one client
\* with three more columns, of which two or three may resolve to one key, and
\* whose cells may be empty.
DuplicateSecond == {" Stock a", "Otro"}
DuplicateThird == {"Stock a ", "STOCK/A", "Otro"}
DuplicateValues == {"", "1", "Rojo"}

DuplicateFile(h2, h3, v1, v2, v3) ==
    << "RUTA,COD_CLIENTE,NOMBRE_CLIENTE,DIA_VISITA,Stock a," \o h2 \o "," \o h3,
       "R1,C1,Juan,Lunes," \o v1 \o "," \o v2 \o "," \o v3 >>

DuplicateFileTwoRow(h2, h3, v1, v2, v3) ==
    << TenBlank \o "KIWE,,",
       "mesa,RUTA LO^GICA,COD CLIENTE,NOMBRE CLIENTE,DIA V,,,,,,Stock a,"
           \o h2 \o "," \o h3,
       "1,R1,C1,Juan,Lunes,,,,,," \o v1 \o "," \o v2 \o "," \o v3 >>

DuplicateFileThreeRow(h2, h3, v1, v2, v3) ==
    << TenBlank \o "KIWE,,",
       "mesa,RUTA LOGICA,COD CLIENTE,NOMBRE CLIENTE,DIA V,,,,,,Stock a,"
           \o h2 \o "," \o h3,
       TenBlank \o ",,",
       "1,R1,C1,Juan,Lunes,,,,,," \o v1 \o "," \o v2 \o "," \o v3 >>

NextDuplicates ==
    \/ /\ uploads = <<>>
       /\ \E h2 \in DuplicateSecond, h3 \in DuplicateThird,
             v1 \in DuplicateValues, v2 \in DuplicateValues, v3 \in DuplicateValues :
              UploadStart(DuplicateFile(h2, h3, v1, v2, v3))
    \/ /\ uploads = <<>>
       /\ \E h2 \in DuplicateSecond, h3 \in DuplicateThird,
             v1 \in DuplicateValues, v2 \in DuplicateValues, v3 \in DuplicateValues :
              UploadStartTwoRow(DuplicateFileTwoRow(h2, h3, v1, v2, v3))
    \/ /\ uploads = <<>>
       /\ \E h2 \in DuplicateSecond, h3 \in DuplicateThird,
             v1 \in DuplicateValues, v2 \in DuplicateValues, v3 \in DuplicateValues :
              UploadStartThreeRow(DuplicateFileThreeRow(h2, h3, v1, v2, v3))
    \/ \E k \in 1..Len(uploads) : UploadDelete(k)
    \/ \E k \in 1..Len(uploads) : UploadInsert(k)

InitDuplicates ==
    /\ now = 1
    /\ store = <<>>
    /\ uploads = <<>>
    /\ queries = <<>>
    /\ paginationState = EmptyMap
    /\ conversationHistory = EmptyMap
    /\ reports = <<>>
    /\ outbox = {}
    /\ listed = [u \in UserIds |-> [items |-> <<>>, pageSize |-> 0]]
    /\ shown = [u \in UserIds |-> <<>>]
    /\ users = UserAccounts
    /\ registrationCodes = CodesAtStart
    /\ requests = <<>>
    /\ classification = Unclassified

SpecDuplicates == InitDuplicates /\ [][NextDuplicates]_vars

\* -- SpecRegister: requests to /auth/register that interleave, with two
\* emails and with the invitation, the global code, and a code nobody issued
RegisterEmails == {"ana@mondi.pe", "luis@mondi.pe"}
RegisterCodes == {"INV-1", "MONDI-DEMO", "INV-9", ""}

NextRegister ==
    \/ /\ Len(requests) < MaxRegistrations
       /\ \E email \in RegisterEmails, registrationCode \in RegisterCodes :
              RegisterStart(email, registrationCode)
    \/ \E n \in 1..Len(requests) : RegisterFindCode(n)
    \/ \E n \in 1..Len(requests) : RegisterFindUser(n)
    \/ \E n \in 1..Len(requests) : RegisterTransaction(n)

InitRegister ==
    /\ now = 0
    /\ store = <<>>
    /\ uploads = <<>>
    /\ queries = <<>>
    /\ paginationState = EmptyMap
    /\ conversationHistory = EmptyMap
    /\ reports = <<>>
    /\ outbox = {}
    /\ listed = [u \in UserIds |-> [items |-> <<>>, pageSize |-> 0]]
    /\ shown = [u \in UserIds |-> <<>>]
    /\ users = UserAccounts
    /\ registrationCodes = CodesAtStart
    /\ requests = <<>>
    /\ classification = Unclassified

SpecRegister == InitRegister /\ [][NextRegister]_vars

\* -- SpecAdmin: requests to the routes of the admin, from an admin, from a
\* user and without a token, over a prior snapshot
Roles == {"admin", "user", Null}

NextAdmin ==
    \/ /\ Len(requests) < MaxAdminRequests
       /\ \E role \in Roles, lines \in {FileA, FileB, FileHeaderOnly, FileRouteZero} :
              AdminUploadCsv(role, lines)
    \/ /\ Len(requests) < MaxAdminRequests
       /\ \E role \in Roles : AdminUsers(role)
    \/ \E k \in 1..Len(uploads) : UploadDelete(k)
    \/ \E k \in 1..Len(uploads) : UploadInsert(k)
    \/ \E n \in 1..Len(requests) : AdminUploadReply(n)

InitAdmin ==
    /\ now = 1
    /\ store = PriorSnapshot
    /\ uploads = <<>>
    /\ queries = <<>>
    /\ paginationState = EmptyMap
    /\ conversationHistory = EmptyMap
    /\ reports = <<>>
    /\ outbox = {}
    /\ listed = [u \in UserIds |-> [items |-> <<>>, pageSize |-> 0]]
    /\ shown = [u \in UserIds |-> <<>>]
    /\ users = UserAccounts
    /\ registrationCodes = CodesAtStart
    /\ requests = <<>>
    /\ classification = Unclassified

SpecAdmin == InitAdmin /\ [][NextAdmin]_vars

\* -- SpecWebhook: u3 draws a verification code, and messages reach the
\* webhook: events and messages it ignores, texts and a voice note of the
\* linked u1, a text of an unknown number, and the code from two phones
\* nobody is linked to and from the phone of u1.
PendingCode == "#Mondi-1234"

Payload(event, valid, fromMe, isGroup, phone, audio, body) ==
    [ event |-> event, valid |-> valid, fromMe |-> fromMe, isGroup |-> isGroup,
      phone |-> phone, audio |-> audio, body |-> body ]

Message(phone, audio, body) ==
    Payload("messages.upsert", TRUE, FALSE, FALSE, phone, audio, body)

WazendPayloads ==
    { Payload("connection.update", FALSE, FALSE, FALSE, "", FALSE, ""),
      Payload(Null, FALSE, FALSE, FALSE, "", FALSE, ""),
      Payload("messages.upsert", TRUE, TRUE, FALSE, "51900000001", FALSE, "hola"),
      Payload("messages.upsert", TRUE, FALSE, TRUE, "120363000000000001", FALSE, "hola"),
      Message("51900000001", FALSE, "hola"),
      Message("51900000001", FALSE, "  "),
      Message("51900000001", TRUE, "buenas"),
      Message("51999999999", FALSE, "hola"),
      Message("51900000008", FALSE, PendingCode),
      Message("51900000009", FALSE, " " \o PendingCode),
      Message("51900000001", FALSE, PendingCode) }

NextWebhook ==
    \/ /\ \A n \in 1..Len(requests) : requests[n].route # "/user/generate-code"
       /\ GenerateCode("u3", PendingCode)
    \/ /\ Cardinality({n \in 1..Len(requests) :
                           requests[n].route = "/webhook/wazend"}) < MaxWebhookRequests
       /\ \E payload \in WazendPayloads : WebhookReceive(payload)
    \/ \E n \in 1..Len(requests), transcribed \in BOOLEAN :
           WebhookTranscribed(n, transcribed)
    \/ \E n \in 1..Len(requests) : LinkFind(n)
    \/ \E n \in 1..Len(requests) : LinkUpdate(n)
    \/ \E n \in 1..Len(requests), answered \in BOOLEAN : HandlerReturned(n, answered)
    \/ \E n \in 1..Len(requests) : ChatFind(n)
    \/ \E n \in 1..Len(requests) : ChatFindFails(n)
    \/ \E n \in 1..Len(requests) : ChatAnswered(n)
    \/ \E i \in 1..Len(queries) : QueryRead(i)
    \/ \E i \in 1..Len(queries) : QueryResolve(i, WeekdayNames[1])

InitWebhook ==
    /\ now = 0
    /\ store = <<>>
    /\ uploads = <<>>
    /\ queries = <<>>
    /\ paginationState = EmptyMap
    /\ conversationHistory = EmptyMap
    /\ reports = <<>>
    /\ outbox = {}
    /\ listed = [u \in UserIds |-> [items |-> <<>>, pageSize |-> 0]]
    /\ shown = [u \in UserIds |-> <<>>]
    /\ users = UserAccounts
    /\ registrationCodes = CodesAtStart
    /\ requests = <<>>
    /\ classification = Unclassified

SpecWebhook == InitWebhook /\ [][NextWebhook]_vars

\* ------------------------------------------------- properties: pagination

Min(a, b) == IF a < b THEN a ELSE b

\* the page of at most `size` blocks that follows the first `cursor` blocks
\* of `items`: the blocks joined by a blank line, the hint when blocks remain
\* after it, the closing line
ExpectedPage(items, cursor, size) ==
    LET last == Min(cursor + size, Len(items))
    IN  [ text |-> Join(SubSeq(items, cursor + 1, last), "\n\n")
                      \o (IF last < Len(items) THEN MoreHint ELSE "")
                      \o Closing,
          hasMore |-> last < Len(items) ]

\* the pages that cut `items` after `cursor` into consecutive runs: the first
\* of `size` blocks, the later ones of DefaultPageSize, the last one shorter
RECURSIVE PagesFrom(_, _, _)
PagesFrom(items, cursor, size) ==
    IF cursor >= Len(items) THEN <<>>
    ELSE <<ExpectedPage(items, cursor, size)>>
             \o PagesFrom(items, Min(cursor + size, Len(items)), DefaultPageSize)

\* the page size a list query asks for: its quantity, or the default
PageSizeOf(query) ==
    LET quantity == requestedQuantity(normalizeText(query))
    IN  IF quantity >= 1 THEN quantity ELSE DefaultPageSize

\* call i returns a page in this step: the first page of a list, or the next
\* page of a continuation
PageStep(i) ==
    /\ queries[i].pc = "resolve"
    /\ queries'[i].pc = "done"
    /\ queries'[i].path \in {"list", "more"}

ListStep(i) == PageStep(i) /\ queries'[i].path = "list"

MoreStep(i) == PageStep(i) /\ queries'[i].path = "more"

\* C1: pagination exhaustiveness.  For every user, the pages served since the
\* user's latest list query (its first page and the continuation pages after
\* it) are, in order, the leading pages of the cut of the listed items L into
\* consecutive runs, so that their concatenation is a prefix of L without
\* duplicates or omissions; the user keeps a pagination entry exactly as long
\* as pages of L remain, and the page that completes L reports hasMore = false.
PaginationExhaustive ==
    \A u \in UserIds :
        LET L == listed[u].items
            pages == PagesFrom(L, 0, listed[u].pageSize)
            k == Len(shown[u])
        IN  L # <<>> =>
                /\ k >= 1 /\ k <= Len(pages)
                /\ \A j \in 1..k : shown[u][j] = pages[j]
                /\ (u \in DOMAIN paginationState) <=> (k < Len(pages))
                /\ (k = Len(pages)) => ~shown[u][k].hasMore

\* a list of MaxClients + 2 items has been served to its end in three pages:
\* two blocks, then ten, then the rest
PaginationExhausted ==
    /\ listed["u1"].pageSize = 2
    /\ Len(listed["u1"].items) = MaxClients + 2
    /\ Len(shown["u1"]) = 3
    /\ "u1" \notin DOMAIN paginationState

\* C6: after every list or continuation query that returns a page, the
\* user's pagination entry is absent if that page had hasMore = false, and
\* otherwise holds the same items with the cursor moved past the page; and
\* every entry that exists has 0 < cursor < length(items).
PaginationCursorKept ==
    [][ /\ \A u \in DOMAIN paginationState' :
               /\ 0 < paginationState'[u].index
               /\ paginationState'[u].index < Len(paginationState'[u].items)
        /\ \A i \in 1..Len(queries) :
               PageStep(i) =>
                   LET u == queries[i].user
                       served == queries'[i]
                       from == IF served.path = "more" THEN paginationState[u]
                               ELSE [items |-> listed'[u].items, index |-> 0]
                       nextCursor == from.index
                                       + Min(served.pageSize, Len(from.items) - from.index)
                   IN  IF served.hasMore
                       THEN /\ u \in DOMAIN paginationState'
                            /\ paginationState'[u] =
                                   [items |-> from.items, index |-> nextCursor]
                       ELSE u \notin DOMAIN paginationState'
      ]_vars

\* an entry whose cursor a continuation has advanced from 2 to 12
CursorAdvanced ==
    /\ "u1" \in DOMAIN paginationState
    /\ paginationState["u1"].index = DefaultPageSize + 2
    /\ Len(shown["u1"]) = 2

\* C7: a page is items[cursor : cursor + pageSize], nextCursor is cursor plus
\* the length of the slice, hasMore is nextCursor < length(items), and the
\* text carries the hint iff hasMore: a list query that matches n items with
\* page size p (its quantity, else 10) answers the first min(n, p) blocks,
\* with the hint iff n > p, and a continuation answers the next blocks 10 at
\* a time.
PageRendering ==
    [][ \A i \in 1..Len(queries) :
            PageStep(i) =>
                LET u == queries[i].user
                    served == queries'[i]
                    more == served.path = "more"
                    items == IF more THEN paginationState[u].items
                             ELSE listed'[u].items
                    cursor == IF more THEN paginationState[u].index ELSE 0
                    p == IF more THEN DefaultPageSize ELSE PageSizeOf(queries[i].query)
                    n == Len(items) - cursor
                IN  /\ served.response = ExpectedPage(items, cursor, p).text
                    /\ served.hasMore <=> (n > p)
                    /\ Includes(served.response, MoreHint) <=> (n > p)
                    /\ (u \in DOMAIN paginationState') =>
                           paginationState'[u].index = cursor + Min(n, p)
      ]_vars

\* 12 matches with the default page size: 10 blocks and the hint, then the
\* remaining 2 blocks and no hint
TwelveInTwoPages ==
    /\ Len(listed["u1"].items) = 12
    /\ listed["u1"].pageSize = DefaultPageSize
    /\ Len(shown["u1"]) = 2
    /\ shown["u1"][1].text =
           Join(SubSeq(listed["u1"].items, 1, 10), "\n\n") \o MoreHint \o Closing
    /\ shown["u1"][2].text =
           Join(SubSeq(listed["u1"].items, 11, 12), "\n\n") \o Closing

\* C8: a new list replaces the prior pagination state.  After a list query of
\* user u that matches the non-empty list L with page size p, u's entry is
\* absent if length(L) <= p and is exactly (L, p) otherwise; an entry always
\* holds the items of the user's latest list, and every continuation page is
\* cut from them.
ListReplacesPagination ==
    [][ /\ \A i \in 1..Len(queries) :
               ListStep(i) =>
                   LET u == queries[i].user
                       L == listed'[u].items
                       p == PageSizeOf(queries[i].query)
                   IN  /\ L # <<>>
                       /\ IF Len(L) <= p
                          THEN u \notin DOMAIN paginationState'
                          ELSE /\ u \in DOMAIN paginationState'
                               /\ paginationState'[u] = [items |-> L, index |-> p]
        /\ \A u \in DOMAIN paginationState' :
               paginationState'[u].items = listed'[u].items
        /\ \A i \in 1..Len(queries) :
               MoreStep(i) =>
                   LET u == queries[i].user
                   IN  queries'[i].response =
                           ExpectedPage(listed[u].items, paginationState[u].index,
                                        DefaultPageSize).text
      ]_vars

\* a list query found the entry of an earlier, different list and left the
\* entry of its own list
PriorListReplaced ==
    \E i \in 1..Len(queries) :
        /\ queries[i].pc = "done" /\ queries[i].path = "list"
        /\ queries[i].prior # <<>>
        /\ queries[i].user \in DOMAIN paginationState
        /\ queries[i].prior[1].items # paginationState[queries[i].user].items
        /\ paginationState[queries[i].user].items = listed[queries[i].user].items

\* ------------------------------------------- properties: intent dispatch

\* what the claim expects of the generative fallback: the query is no
\* continuation, and it is audio or none of list intent, day filter and
\* colour filter fires (a day filter fires whatever today's weekday is)
FallbackExpected(q) ==
    LET normalizedQuery == normalizeText(q.query)
    IN  /\ ~isMoreQuery(normalizedQuery)
        /\ \/ q.isAudio
           \/ ~ \/ isListIntent(normalizedQuery)
                \/ Truthy(resolveDayFilter(normalizedQuery, WeekdayNames[1]))
                \/ Truthy(resolveColorFilter(normalizedQuery))

\* call i leaves the intent dispatch in this step
ResolveStep(i) ==
    /\ queries[i].pc = "resolve"
    /\ queries'[i].pc # "resolve"

\* C4 as stated: for every query, the generative fallback is invoked if and
\* only if the query is no continuation and (it is audio or none of list
\* intent, day filter, colour filter fires).
FallbackIffNoIntent ==
    \A i \in 1..Len(queries) :
        queries[i].pc = "done" =>
            ((queries[i].llmCalls > 0) <=> FallbackExpected(queries[i]))

\* C4, amended: for every query of a user with a route for which the store
\* returned records, the generative fallback is invoked if and only if the
\* query is no continuation and (it is audio or none of list intent, day
\* filter, colour filter fires).
FallbackIffNoIntentOnData ==
    [][ \A i \in 1..Len(queries) :
            (ResolveStep(i) /\ queries[i].routeData # <<>>) =>
                /\ (queries'[i].pc = "completion") <=> FallbackExpected(queries[i])
                /\ queries'[i].llmCalls =
                       IF FallbackExpected(queries[i]) THEN 1 ELSE 0
      ]_vars

\* an audio query with a list trigger has been answered by the fallback, and
\* a continuation and a weekday query without it
FallbackDispatched ==
    /\ \E i \in 1..Len(queries) :
           /\ queries[i].isAudio /\ queries[i].query = "dos clientes"
           /\ queries[i].pc = "done" /\ queries[i].llmCalls = 1
    /\ \E i \in 1..Len(queries) :
           /\ ~queries[i].isAudio /\ queries[i].query = "lunes"
           /\ queries[i].pc = "done" /\ queries[i].path = "list"
           /\ queries[i].llmCalls = 0

\* the list, day or colour heuristics fire on a text
HeuristicsFire(text) ==
    LET normalizedQuery == normalizeText(text)
    IN  \/ isListIntent(normalizedQuery)
        \/ Truthy(resolveDayFilter(normalizedQuery, WeekdayNames[1]))
        \/ Truthy(resolveColorFilter(normalizedQuery))

\* C5: a query that arrived as an audio message of the webhook and whose
\* transcript holds a list trigger, a weekday name or a colour name is not
\* resolved on the list path and leaves the pagination state as it was.
AudioSuppressesHeuristics ==
    [][ \A i \in 1..Len(queries) :
            (ResolveStep(i) /\ queries[i].audioMsg /\ HeuristicsFire(queries[i].query)) =>
                /\ queries'[i].path \notin {"list", "nomatch"}
                /\ paginationState' = paginationState
      ]_vars

\* the texts among the inputs that ask for a continuation
ContinuationTexts == {"ver ma^s", "Ver  mas"}

\* C9 as stated: a continuation query of a user without a pagination entry
\* (here: of a user who has listed nothing yet) is answered with the literal
\* "no more items" text, without the generative fallback.
ContinuationWithoutEntry ==
    \A i \in 1..Len(queries) :
        ( /\ queries[i].pc = "done"
          /\ queries[i].query \in ContinuationTexts
          /\ listed[queries[i].user].items = <<>> ) =>
            /\ queries[i].response = NoMoreMsg
            /\ queries[i].llmCalls = 0

\* C9, amended: a continuation query of a user with a route for which the
\* store returned records, and without a pagination entry, is answered with
\* the literal "no more items" text, creates no pagination entry, leaves the
\* conversation history unchanged and does not invoke the generative fallback.
ContinuationWithoutEntryOnData ==
    [][ \A i \in 1..Len(queries) :
            ( /\ ResolveStep(i)
              /\ queries[i].query \in ContinuationTexts
              /\ queries[i].routeData # <<>>
              /\ queries[i].user \notin DOMAIN paginationState ) =>
                /\ queries'[i].pc = "done"
                /\ queries'[i].response = NoMoreMsg
                /\ queries'[i].llmCalls = 0
                /\ paginationState' = paginationState
                /\ conversationHistory' = conversationHistory
      ]_vars

\* a continuation sent with two spaces by a user who has a conversation
\* history and no pagination entry has been answered
NoMorePagesAnswered ==
    \E i \in 1..Len(queries) :
        /\ queries[i].query = "Ver  mas"
        /\ queries[i].pc = "done" /\ queries[i].path = "nomore"
        /\ queries[i].user \in DOMAIN conversationHistory

\* ------------------------------------------------ properties: the snapshot

\* what findMany returns for `route` from a store that holds exactly the
\* valid rows `entries` of one upload, whenever they were inserted
WholeRead(entries, route) ==
    {findMany(createMany(<<>>, entries, t), route) : t \in 0..MaxClock}

\* C2: with one upload in progress, a concurrent read of the store sees the
\* records of exactly one snapshot in full: those of the prior snapshot or
\* those of the upload, never a part, a mixture or neither.
ReadSeesWholeSnapshot ==
    Len(uploads) = 1 =>
        \A i \in 1..Len(queries) :
            queries[i].pc = "resolve" =>
                \/ queries[i].routeData = findMany(PriorSnapshot, queries[i].route)
                \/ /\ uploads[1].count > 0
                   /\ queries[i].routeData \in WholeRead(uploads[1].entries, queries[i].route)

\* C3: once every started upload with at least one valid row has completed,
\* however their steps interleaved, all stored records share one batchId.
SingleBatchAfterUploads ==
    ( /\ \A k \in 1..Len(uploads) : uploads[k].pc \in {"done", "failed"}
      /\ \E k \in 1..Len(uploads) : uploads[k].count > 0 ) =>
        Cardinality({store[r].batchId : r \in 1..Len(store)}) = 1

\* ------------------------------------- properties: conversation history

\* call i gets the answer of the completion service in this step
CompletionStep(i) ==
    /\ queries[i].pc = "completion"
    /\ queries'[i].pc = "done"
    /\ queries'[i].path = "llm"

\* C10: every user's conversation history has at most 50 entries; an exchange
\* appended to the history a query read leaves that history followed by the
\* exchange when these are at most 50 entries, and otherwise their most
\* recent 50 entries in their order, ending with the new exchange.
HistoryBounded ==
    [][ /\ \A u \in DOMAIN conversationHistory' :
               Len(conversationHistory'[u]) <= 50
        /\ \A i \in 1..Len(queries) :
               CompletionStep(i) =>
                   LET before == queries[i].history
                       after == conversationHistory'[queries[i].user]
                       kept == Len(after) - 2
                   IN  /\ Len(after) = Min(Len(before) + 2, 50)
                       /\ after[Len(after) - 1] =
                              [role |-> "user", content |-> queries[i].query]
                       /\ after[Len(after)].role = "assistant"
                       /\ \A j \in 1..kept :
                              after[j] = before[Len(before) - kept + j]
      ]_vars

\* a history of 50 entries has taken one more exchange: the oldest exchange
\* is gone and the new one is last
OldestExchangeDropped ==
    /\ "u1" \in DOMAIN conversationHistory
    /\ Len(conversationHistory["u1"]) = 50
    /\ conversationHistory["u1"][1].content = "consulta 2"
    /\ conversationHistory["u1"][49].content = "hola"
    /\ conversationHistory["u1"][50].role = "assistant"

\* ------------------------------------- properties: the completion service

\* the call of the completion service of query i fails in this step
FailureStep(i) ==
    /\ queries[i].pc = "completion"
    /\ queries'[i].pc = "done"
    /\ queries'[i].path = "error"

\* query i, on its way to the completion service, takes a step before the
\* service answers
TowardsCompletionStep(i) ==
    \/ queries[i].pc = "findMany" /\ queries'[i].pc = "resolve"
    \/ queries[i].pc = "resolve" /\ queries'[i].pc = "completion"

\* C11: when the call of the completion service throws, processUserQuery
\* returns the fixed apology, the service has been called exactly once for
\* the query, and no step of the query (the read, the dispatch, the failed
\* call) changes the conversation histories or the pagination entries.
ApologyLeavesSession ==
    [][\A i \in 1..Len(queries) :
          /\ FailureStep(i) =>
                /\ queries'[i].response = ApologyMsg
                /\ queries'[i].llmCalls = 1
                /\ conversationHistory' = conversationHistory
                /\ paginationState' = paginationState
          /\ TowardsCompletionStep(i) =>
                /\ conversationHistory' = conversationHistory
                /\ paginationState' = paginationState]_vars

\* C11 witness: a query has been answered with the apology after one call of
\* the service while its user has a list pending
ApologyWithListPending ==
    \E i \in 1..Len(queries) :
        /\ queries[i].pc = "done" /\ queries[i].path = "error"
        /\ queries[i].response = ApologyMsg
        /\ queries[i].llmCalls = 1
        /\ hasPage(paginationState, queries[i].user)

\* the position of the first marker in a text that has one
FirstMarker(text) ==
    CHOOSE a \in 1..Len(text) :
        /\ StartsAt(text, a, ReportMarker)
        /\ \A b \in 1..(a - 1) : ~StartsAt(text, b, ReportMarker)

\* all the text after the first marker
Following(text) == From(text, FirstMarker(text) + Len(ReportMarker))

\* the text after the first marker up to the next marker, if there is one
MarkedPart(text) ==
    LET rest == Following(text)
    IN  IF Includes(rest, ReportMarker)
        THEN SubSeq(rest, 1, FirstMarker(rest) - 1)
        ELSE rest

\* the report of a user with the given content
ReportOf(userId, content) ==
    [content |-> content, userId |-> userId, status |-> "pending"]

\* C12 as stated: when the completion contains the marker, the step that
\* takes the answer creates exactly one report for the querying user, holding
\* the text that follows the marker (without the blanks around it), and
\* returns the acknowledgement of that text; otherwise it creates no report
\* and returns the raw completion.
ReportHoldsFollowingText ==
    [][\A i \in 1..Len(queries) : CompletionStep(i) =>
          LET raw == queries'[i].completion
          IN  IF raw # Null /\ Includes(raw, ReportMarker)
              THEN /\ reports' = Append(reports, ReportOf(queries[i].user,
                                                          Trim(Following(raw))))
                   /\ queries'[i].response = ReportAck(Trim(Following(raw)))
              ELSE /\ reports' = reports
                   /\ raw # Null
                   /\ queries'[i].response = raw]_vars

\* C12 amended: the report holds the text between the first marker and the
\* next marker (or the end), without the blanks around it, and the fixed
\* text "Reporte vacio" when nothing follows the marker; without a marker no
\* report is created and the completion is returned, the fixed text "Lo
\* siento, no pude procesar tu solicitud." standing for an absent or empty
\* completion.
ReportHoldsMarkedPart ==
    [][\A i \in 1..Len(queries) : CompletionStep(i) =>
          LET raw == queries'[i].completion
              expected == IF MarkedPart(raw) = "" THEN "Reporte vaci^o"
                          ELSE Trim(MarkedPart(raw))
          IN  IF raw # Null /\ Includes(raw, ReportMarker)
              THEN /\ reports' = Append(reports, ReportOf(queries[i].user, expected))
                   /\ queries'[i].response = ReportAck(expected)
              ELSE /\ reports' = reports
                   /\ queries'[i].response =
                          IF raw = Null \/ raw = "" THEN NoContentMsg ELSE raw]_vars

\* C12 witness: an answer with two markers has been taken, and the report of
\* its user holds the text between them
ReportCutAtSecondMarker ==
    \E i \in 1..Len(queries) :
        /\ queries[i].pc = "done" /\ queries[i].path = "llm"
        /\ queries[i].completion # Null
        /\ Includes(queries[i].completion, ReportMarker)
        /\ Includes(Following(queries[i].completion), ReportMarker)
        /\ Len(reports) = 1
        /\ reports[1] = ReportOf(queries[i].user, "local cerrado")
        /\ queries[i].response = ReportAck("local cerrado")

\* ------------------------------------------------ properties: the layouts

\* the rows the parser keeps of a file: its lines that are not empty
RowsOf(lines) == Len(SelectSeq(lines, LAMBDA l : l # ""))

\* the error an upload in this layout names when it has too few rows
ExpectedRowError(layout) ==
    IF layout = "single" THEN TooFewRowsMsg ELSE TooFewRowsMsgCategories

\* C13: an upload of fewer than 2 rows in the single-header layout, or of
\* fewer than 3 rows in the two-row and three-row layouts, fails, its caller
\* is answered with the error's text, and the store is as it was before the
\* request (a failed upload takes no further step).
ShortUploadRejected ==
    [][\A k \in 1..Len(uploads') :
          LET u == uploads'[k]
          IN  RowsOf(u.file) < (IF u.layout = "single" THEN 2 ELSE 3) =>
                 /\ u.pc = "failed"
                 /\ uploadReply(u).status = 500
                 /\ uploadReply(u).error = ExpectedRowError(u.layout)
                 /\ k > Len(uploads) => store' = store]_vars

\* C13 witness: a two-row upload of the two header rows alone has failed over
\* the prior snapshot, which is still there
ShortTwoRowRejected ==
    \E k \in 1..Len(uploads) :
        /\ uploads[k].layout = "two-row"
        /\ RowsOf(uploads[k].file) = 2
        /\ uploads[k].pc = "failed"
        /\ uploadReply(uploads[k]).error = TooFewRowsMsgCategories
        /\ store = PriorSnapshot /\ store # <<>>

\* the data rows of a single-header file that pass the row validation
ValidRows(lines) ==
    LET records == parse(lines, sniffDelimiter(lines))
        mapped == mappedHeaders(records[1])
    IN  {i \in 2..Len(records) : validEntry(rowEntry(mapped, records[i], ""))}

\* upload k returns from createMany in this step
InsertStep(k) ==
    /\ uploads[k].pc = "createMany"
    /\ uploads'[k].pc = "done"

\* C14 as stated: the count an upload returns is the number of its data rows
\* that pass the row validation, and when that count is positive the store
\* holds exactly that many records once the upload has written them.
CountIsStoredRows ==
    [][\A k \in 1..Len(uploads) : InsertStep(k) =>
          /\ uploadReply(uploads'[k]).count = Cardinality(ValidRows(uploads[k].file))
          /\ uploadReply(uploads'[k]).count > 0 =>
                 Len(store') = uploadReply(uploads'[k]).count]_vars

\* C15 as stated: whatever has been uploaded, in whichever layout, every
\* record of the store has a client code, and a route code that is neither
\* empty nor the placeholder "0" or "0.0".
StoredCodesValid ==
    \A i \in 1..Len(store) :
        /\ store[i].clientCode # ""
        /\ store[i].routeCode \notin {"", "0", "0.0"}

\* the columns up to column j whose category cell is neither blank nor a
\* marker
NamedCategoryColumns(categories, j) ==
    {c \in 1..j : /\ Cell(categories, c) # ""
                  /\ toLowerCase(Cell(categories, c)) \notin {"actual", "necesidad"}}

\* C16: in a three-row upload, for every column of index 10 or more whose
\* sub-header is not empty and not in the override table, and which has a
\* non-blank, non-marker category cell at or before it, the resolved key is
\* the normalized category of the nearest such cell, "_", and the normalized
\* sub-header.
CategoryPersists ==
    \A k \in 1..Len(uploads) :
        LET records == parseDefault(uploads[k].file)
        IN  (uploads[k].layout = "three-row" /\ Len(records) >= 3) =>
                LET categories == records[1]
                    resolved == resolvedHeaders(records[2], records[3])
                    mapped == mappedHeadersThreeRow(categories, resolved)
                IN  \A j \in 1..Len(mapped) :
                        LET sub == Cell(resolved, j)
                            named == NamedCategoryColumns(categories, j)
                            nearest == CHOOSE c \in named : \A d \in named : d <= c
                        IN  ( /\ j - 1 >= 10
                              /\ sub # ""
                              /\ standaloneHeaderMapThreeRow(normalizeKey(sub)) = Null
                              /\ named # {} ) =>
                                mapped[j] = normalizeKey(Cell(categories, nearest))
                                                \o "_" \o normalizeKey(sub)

\* C16 witness: a three-row upload with the category KIWE at column 10 only
\* and ACTUAL in the category slot of column 12 has stored a record whose
\* attribute of column 12 is keyed KIWE_PACKS
MarkerKeepsCategory ==
    \E k \in 1..Len(uploads) :
        /\ uploads[k].layout = "three-row"
        /\ uploads[k].pc = "done"
        /\ LET categories == parseDefault(uploads[k].file)[1]
           IN  /\ NamedCategoryColumns(categories, 13) = {11}
               /\ Cell(categories, 11) = "KIWE"
               /\ Cell(categories, 13) = "ACTUAL"
        /\ \E i \in 1..Len(store) :
               /\ "KIWE_PACKS" \in DOMAIN store[i].data
               /\ store[i].data["KIWE_PACKS"] = "3"

\* C17 as stated: a three-row upload builds its records from the rows after
\* the three header rows only, so the fallback-header row yields none, and an
\* upload of exactly the three header rows returns count 0 and writes
\* nothing.
RecordsFromDataRowsOnly ==
    \A k \in 1..Len(uploads) :
        LET u == uploads[k]
            records == parseDefault(u.file)
        IN  (u.layout = "three-row" /\ Len(records) >= 3) =>
                LET mapped == mappedHeadersThreeRow(records[1],
                                  resolvedHeaders(records[2], records[3]))
                    fromData == [i \in 1..(Len(records) - 3) |->
                                    rowEntryThreeRow(mapped, records[i + 3], u.batchId)]
                IN  /\ u.entries = SelectSeq(fromData, validEntryThreeRow)
                    /\ Len(records) = 3 => u.pc = "done" /\ u.count = 0

\* C18 as stated: in every stored record, whatever the layout of its upload,
\* each attribute has a key that is not empty and a value that is not empty.
AttributesNonEmpty ==
    \A i \in 1..Len(store) :
        \A key \in DOMAIN store[i].data :
            key # "" /\ store[i].data[key] # ""

\* ----------------------------------------------- properties: the classifier

\* the count, the minimums and the outcome of the classification made
Classified == classification.info # <<>>

ColorInfo == classification.info[1]

Minimums == classification.thresholds[1]

\* C20: the classification table. An unknown count has colour N/D and no
\* distance; a count of 0 or less is NEGRO at distance max(0, rojoMin - count);
\* a count of verdeMin or more is VERDE at distance 0; otherwise a count of
\* amarilloMin or more is AMARILLO at distance verdeMin - count; any other
\* count is ROJO at distance amarilloMin - count. The distance is never
\* negative, and count 0 under the minimums of K2 is NEGRO at distance 1.
ClassificationTable ==
    Classified =>
        LET p == classification.packsActual
            info == ColorInfo
            th == Minimums
        IN  IF p = <<>>
            THEN info.color = "N/D" /\ info.falta = <<>>
            ELSE LET count == p[1]
                 IN  /\ info.falta # <<>>
                     /\ info.falta[1] >= 0
                     /\ IF count <= 0
                        THEN /\ info.color = "NEGRO"
                             /\ info.falta[1] = Max(0, th.rojoMin - count)
                        ELSE IF count >= th.verdeMin
                        THEN info.color = "VERDE" /\ info.falta[1] = 0
                        ELSE IF count >= th.amarilloMin
                        THEN /\ info.color = "AMARILLO"
                             /\ info.falta[1] = th.verdeMin - count
                        ELSE /\ info.color = "ROJO"
                             /\ info.falta[1] = th.amarilloMin - count
                     /\ (classification.type = "K2" /\ count = 0) =>
                            info = [color |-> "NEGRO", falta |-> <<1>>]

\* a K2 client with no packs sold has been classified NEGRO, one pack away
K2WithoutPacksClassified ==
    /\ Classified
    /\ classification.type = "K2"
    /\ classification.packsActual = <<0>>
    /\ Minimums = [rojoMin |-> 1, amarilloMin |-> 8, verdeMin |-> 12]
    /\ ColorInfo = [color |-> "NEGRO", falta |-> <<1>>]

\* the packs sold that a summary shows, as a whole number: <<>> when the
\* cell is absent or not a number
WholeCount(num) ==
    IF num = Null THEN <<>>
    ELSE IF AllDigits(num) THEN <<parseInt(num)>>
    ELSE IF CharAt(num, 1) = "-" /\ AllDigits(From(num, 2))
    THEN <<0 - parseInt(From(num, 2))>>
    ELSE <<>>

\* the records of one product family whose packs sold are unknown or whole
HasWholeCount(d) ==
    LET packs == parseNumber(Attr(d.data, "PACKS_VENDIDOS_KIWES"))
    IN  /\ Present(Attr(d.data, "EXHIBIDOR_KIWES")) # Null
        /\ Present(Attr(d.data, "EXHIBIDOR_LEGOS")) = Null
        /\ packs # Null => WholeCount(packs) # <<>>

\* C19: the colour of every client summary built for a query is the colour
\* that computeColorInfo gives the client's packs sold under the minimums of
\* an exhibitor type; so a client with no packs sold is never shown under a
\* colour other than NEGRO.
SummaryColourClassified ==
    [][\A i \in 1..Len(queries) :
          ResolveStep(i) =>
              \A k \in 1..Len(queries[i].routeData) :
                  LET d == queries[i].routeData[k]
                      count == WholeCount(parseNumber(Attr(d.data, "PACKS_VENDIDOS_KIWES")))
                  IN  HasWholeCount(d) =>
                          /\ \E type \in ExhibidorTypes :
                                 clientSummary(d).color =
                                     computeColorInfo(count, getDefaultThresholds(type)).color
                          /\ (count # <<>> /\ count[1] <= 0) =>
                                 clientSummary(d).color = "NEGRO"]_vars

\* the place of a colour in the order NEGRO < ROJO < AMARILLO < VERDE
ColorRank(color) ==
    CASE color = "NEGRO" -> 0
      [] color = "ROJO" -> 1
      [] color = "AMARILLO" -> 2
      [] color = "VERDE" -> 3

\* the known counts of the specification
KnownCounts == (0 - MaxReturned)..MaxPacks

\* C21: classification is monotonic. Under the minimums of the
\* classification made, every known count above the classified count has a
\* colour at or above the classified count's colour, and every known count
\* below it a colour at or below.
ClassificationMonotonic ==
    (Classified /\ classification.packsActual # <<>>) =>
        \A other \in KnownCounts :
            LET count == classification.packsActual[1]
                rank == ColorRank(ColorInfo.color)
                otherRank == ColorRank(computeColorInfo(<<other>>, Minimums).color)
            IN  /\ count < other => rank <= otherRank
                /\ other < count => otherRank <= rank

\* a K2 client with 7 packs sold has been classified ROJO, and one pack more
\* is AMARILLO under the same minimums
LastRedCountClassified ==
    /\ Classified
    /\ classification.type = "K2"
    /\ classification.packsActual = <<7>>
    /\ ColorInfo.color = "ROJO"
    /\ computeColorInfo(<<8>>, Minimums).color = "AMARILLO"

\* C22: minimums with amarilloMin above verdeMin count as the default
\* minimums: a count classified under such minimums has the colour and the
\* distance it has under rojoMin 1, amarilloMin 8, verdeMin 12.
IllFormedMinimumsAreDefault ==
    (Classified /\ Minimums.amarilloMin > Minimums.verdeMin) =>
        /\ getDefaultThresholds("") = [rojoMin |-> 1, amarilloMin |-> 8, verdeMin |-> 12]
        /\ ColorInfo = computeColorInfo(classification.packsActual,
                                        getDefaultThresholds(""))

\* ------------------------------------------------- properties: coercion

\* a cell that holds no number: nothing is left of it once the characters
\* other than digits, sign and point are removed, or what is left has no
\* digit or is no numeric literal
HoldsNoNumber(raw) ==
    LET kept == KeepNumeric(raw)
    IN  \/ kept = ""
        \/ \A k \in 1..Len(kept) : ~IsDigit(CharAt(kept, k))
        \/ NumberOf(kept) = NaN

\* C23: a cell that holds no number, an empty cell and a cell without
\* digits included, is parsed to null, the unknown count, and never to 0.
NoNumberIsUnknown ==
    (classification.parsed /\ classification.raw # Null
        /\ HoldsNoNumber(classification.raw)) =>
        classification.num = Null

\* ------------------------------------------------- properties: sessions

\* what a session map holds for a user: <<>> for no entry
EntryOf(map, userId) == IF userId \in DOMAIN map THEN <<map[userId]>> ELSE <<>>

\* call i takes a step
CallStep(i) == queries'[i] # queries[i]

\* C24: sessions are separate. In every step, the pagination entry and the
\* conversation history of a user change only if it is a call of that user
\* that takes the step; the page that a continuation of a user returns is a
\* page of the items of that user's own latest list, and the history that a
\* question of a user hands to the completion service is that user's own.
SessionsSeparate ==
    [][/\ \A userId \in UserIds :
              (\/ EntryOf(paginationState', userId) # EntryOf(paginationState, userId)
               \/ EntryOf(conversationHistory', userId)
                      # EntryOf(conversationHistory, userId))
                  => \E i \in 1..Len(queries) :
                         queries[i].user = userId /\ CallStep(i)
       /\ \A i \in 1..Len(queries) :
              /\ MoreStep(i) =>
                     \E cursor \in 1..Len(listed[queries[i].user].items) :
                         queries'[i].response =
                             ExpectedPage(listed[queries[i].user].items, cursor,
                                          DefaultPageSize).text
              /\ (queries[i].pc = "resolve" /\ queries'[i].pc = "completion") =>
                     <<queries'[i].history>> =
                         (IF EntryOf(conversationHistory, queries[i].user) = <<>>
                          THEN << <<>> >>
                          ELSE EntryOf(conversationHistory, queries[i].user))]_vars

\* u1 has been served the last page of its list by a continuation, which
\* removed u1's pagination entry, while u2 keeps the entry of its own list
BothUsersInSession ==
    /\ "u1" \notin DOMAIN paginationState
    /\ "u2" \in DOMAIN paginationState
    /\ paginationState["u2"].items = listed["u2"].items
    /\ \E i \in 1..Len(queries) :
           queries[i].user = "u1" /\ queries[i].path = "more"

\* ------------------------------------------------- properties: the webhook

\* the step is the webhook's, for a voice note whose transcription fails
FailedTranscription(msg) == msg.audio /\ Webhook(msg, FALSE)

CellsOf(u) ==
    LET rows == IF u.layout = "single" THEN parse(u.file, sniffDelimiter(u.file))
                ELSE parseDefault(u.file)
    IN  UNION {{rows[r][c] : c \in 1..Len(rows[r])} : r \in 1..Len(rows)}

\* the attribute keys of the records that an upload built or the store holds
KeysOf(entries) == UNION {DOMAIN entries[k].data : k \in 1..Len(entries)}

\* C26: key normalization is idempotent. Normalizing the normalized form of
\* any cell of an uploaded file gives the normalized form again, and every
\* attribute key that an upload built from a header, and every attribute key
\* in the store, is its own normalized form.
NormalizeKeyIdempotent ==
    /\ \A k \in 1..Len(uploads) :
           /\ \A x \in CellsOf(uploads[k]) :
                  normalizeKey(normalizeKey(x)) = normalizeKey(x)
           /\ \A key \in KeysOf(uploads[k].entries) : normalizeKey(key) = key
    /\ \A key \in KeysOf(store) : normalizeKey(key) = key

\* the store holds an attribute whose header "/a/" had a slash on either
\* side: the key has an underscore for each
SlashedHeaderStored == "_A_" \in KeysOf(store)

\* ------------------------------------- properties: queries during a replace

\* call i, a continuation of a user whose pagination entry has items left,
\* is answered in this step
ContinuationOnEntryStep(i) ==
    /\ ResolveStep(i)
    /\ isMoreQuery(normalizeText(queries[i].query))
    /\ hasPage(paginationState, queries[i].user)
    /\ paginationState[queries[i].user].index
           < Len(paginationState[queries[i].user].items)

\* C27: a continuation of a user whose pagination entry has items left
\* returns the next page of the stored items, whatever the store held when
\* the call read it, and the cursor advances: the entry is kept with the
\* cursor moved past the page, or removed when the page is the last one.
ContinuationServesStoredPage ==
    [][\A i \in 1..Len(queries) :
          ContinuationOnEntryStep(i) =>
              LET userId == queries[i].user
                  state == paginationState[userId]
                  page == ExpectedPage(state.items, state.index, DefaultPageSize)
              IN  /\ queries'[i].response = page.text
                  /\ EntryOf(paginationState', userId) =
                         (IF page.hasMore
                          THEN << [items |-> state.items,
                                   index |-> state.index + DefaultPageSize] >>
                          ELSE <<>>)]_vars

\* the records of a route among the entries of a table or of an upload
OfRoute(entries, route) == SelectSeq(entries, LAMBDA e : e.routeCode = route)

\* C28: a query can run between the delete and the insert of a replace. The
\* step of an upload that deletes the table leaves it empty with the insert
\* still to come; a call that reads the empty table gets no records; and a
\* call that got no records is answered that no information is loaded for
\* its route.
ReplaceWindowReadsEmpty ==
    [][/\ \A k \in 1..Len(uploads) :
              (uploads[k].pc = "deleteMany" /\ uploads'[k].pc # "deleteMany") =>
                  store' = <<>> /\ uploads'[k].pc = "createMany"
       /\ \A i \in 1..Len(queries) :
              /\ (queries[i].pc = "findMany" /\ queries'[i].pc = "resolve"
                      /\ store = <<>>) =>
                     queries'[i].routeData = <<>>
              /\ (ResolveStep(i) /\ queries[i].routeData = <<>>) =>
                     /\ queries'[i].path = "nodata"
                     /\ queries'[i].response = NoDataMsg(queries[i].route)]_vars

\* route R1 has records in the prior snapshot and among the records that the
\* one upload is about to insert, the table is empty in between, and the
\* query of u1 has been answered that no information is loaded for R1
AnsweredNoDataDuringReplace ==
    /\ Len(uploads) = 1
    /\ uploads[1].pc = "createMany"
    /\ store = <<>>
    /\ OfRoute(PriorSnapshot, "R1") # <<>>
    /\ OfRoute(uploads[1].entries, "R1") # <<>>
    /\ \E i \in 1..Len(queries) :
           /\ queries[i].route = "R1"
           /\ queries[i].pc = "done"
           /\ queries[i].path = "nodata"
           /\ queries[i].response = NoDataMsg("R1")

\* ------------------------------------- properties: history under interleaving

\* the exchange that call i completes in this step: the question and the
\* answer of the completion service
ExchangeOf(i) ==
    LET content == queries'[i].completion
    IN  << [role |-> "user", content |-> queries[i].query],
           [role |-> "assistant",
            content |-> IF content = Null \/ content = "" THEN NoContentMsg
                        ELSE content] >>

\* C29: the conversation history is append-only. When a question of a user is
\* answered by the completion service, the user's history afterwards is the
\* history as it was just before, followed by the exchange, cut to its most
\* recent 50 entries: no exchange completed earlier is lost, also when the
\* call read the history before another call of the user wrote to it.
HistoryAppendOnly ==
    [][\A i \in 1..Len(queries) :
          CompletionStep(i) =>
              LET userId == queries[i].user
                  before == IF userId \in DOMAIN conversationHistory
                            THEN conversationHistory[userId] ELSE <<>>
              IN  /\ userId \in DOMAIN conversationHistory'
                  /\ conversationHistory'[userId] = trimHistory(before \o ExchangeOf(i))]_vars

\* ------------------------------------------- properties: failed uploads

\* C30: a failed upload leaves the store as it was. As long as every upload
\* received has failed, by too few rows or by a rejected bulk insert, the
\* store holds the whole prior snapshot.
FailedUploadKeepsSnapshot ==
    (uploads # <<>> /\ \A k \in 1..Len(uploads) : uploads[k].pc = "failed") =>
        store = PriorSnapshot

\* ------------------------------------- properties: uploads without valid rows

\* C31: an upload of enough rows none of which passes the row validation
\* returns at once with success, count 0 and the batch id taken from the clock
\* at the call; it never reaches deleteMany, so the step that handles it
\* leaves the store as it was and no later step of it exists.
EmptyUploadLeavesStore ==
    [][\A k \in 1..Len(uploads') :
          LET u == uploads'[k]
          IN  (u.layout = "single" /\ RowsOf(u.file) >= MinRows
                  /\ ValidRows(u.file) = {}) =>
                 /\ u.pc = "done"
                 /\ uploadReply(u).status = 200
                 /\ uploadReply(u).success
                 /\ uploadReply(u).count = 0
                 /\ uploadReply(u).batchId # Null
                 /\ k > Len(uploads) =>
                        /\ store' = store
                        /\ uploadReply(u).batchId = batchIdAt(now)]_vars

\* C31 witness: the upload of a file whose only row names route 0 has
\* returned count 0 with the batch id of time 1, over the prior snapshot of
\* time 0, which is still the store
EmptyUploadOverSnapshot ==
    \E k \in 1..Len(uploads) :
        /\ uploads[k].file = FileRouteZero
        /\ uploads[k].pc = "done"
        /\ uploadReply(uploads[k]).count = 0
        /\ uploadReply(uploads[k]).batchId = batchIdAt(1)
        /\ store = PriorSnapshot /\ store # <<>>
        /\ \A i \in 1..Len(store) : store[i].batchId # uploads[k].batchId

\* ------------------------------------------ properties: the list's filter

\* the weekday and the colour a query names, when today is `today`
DayNamed(q, today) == resolveDayFilter(normalizeText(q.query), today)
ColourNamed(q) == resolveColorFilter(normalizeText(q.query))

\* a record of the route is of the day and of the colour asked for
RecordMatches(r, day, colour) ==
    /\ Truthy(day) => Includes(normalizeText(r.visitDay), day)
    /\ Truthy(colour) => clientSummary(r).color = colour

\* a text query, no continuation, in which a list trigger, a weekday or a
\* colour is found
IsListQuery(q, today) ==
    /\ ~q.isAudio
    /\ ~isMoreQuery(normalizeText(q.query))
    /\ \/ isListIntent(normalizeText(q.query))
       \/ Truthy(DayNamed(q, today))
       \/ Truthy(ColourNamed(q))

\* call i, a list query that no record it read matches on whatever day the
\* clock may show, is resolved in this step
NoMatchStep(i) ==
    /\ ResolveStep(i)
    /\ \A today \in Todays(i) :
           /\ IsListQuery(queries[i], today)
           /\ \A n \in 1..Len(queries[i].routeData) :
                  ~RecordMatches(queries[i].routeData[n],
                                 DayNamed(queries[i], today), ColourNamed(queries[i]))

\* C32 as stated: a text query for a list, a day or a colour that no client
\* of the route matches is answered with the no-matches text, without a call
\* of the completion service, and the pagination map and the histories are
\* as they were.
NoMatchAnswered ==
    [][\A i \in 1..Len(queries) :
          NoMatchStep(i) =>
              /\ queries'[i].pc = "done"
              /\ queries'[i].response = NoMatchMsg
              /\ queries'[i].llmCalls = 0
              /\ paginationState' = paginationState
              /\ conversationHistory' = conversationHistory]_vars

\* C32, amended: the same for a query that read at least one record of the
\* user's route.
NoMatchAnsweredOnData ==
    [][\A i \in 1..Len(queries) :
          (NoMatchStep(i) /\ Len(queries[i].routeData) > 0) =>
              /\ queries'[i].pc = "done"
              /\ queries'[i].response = NoMatchMsg
              /\ queries'[i].llmCalls = 0
              /\ paginationState' = paginationState
              /\ conversationHistory' = conversationHistory]_vars

\* C32 witness: u1 listed its four clients two at a time, then asked for the
\* black ones and was told there are none, and the continuation that
\* followed served the last two clients of the list
ContinuationAfterNoMatch ==
    /\ Len(queries) = 3
    /\ queries[1].path = "list" /\ queries[1].hasMore
    /\ queries[2].query = "negros" /\ queries[2].response = NoMatchMsg
    /\ queries[3].path = "more"
    /\ Len(listed["u1"].items) = 4
    /\ queries[3].response = ExpectedPage(listed["u1"].items, 2, DefaultPageSize).text

\* the records of `routeData` of the day and the colour asked for, in the
\* order they have in `routeData`
RECURSIVE Kept(_, _, _)
Kept(routeData, day, colour) ==
    IF routeData = <<>> THEN <<>>
    ELSE (IF RecordMatches(Head(routeData), day, colour)
          THEN <<Head(routeData)>> ELSE <<>>)
             \o Kept(Tail(routeData), day, colour)

\* the blocks of the records, one by one
BlocksOf(records) == formatItems(clientSummaries(records))

\* C33: the list that a list, day or colour query produces is made of the
\* blocks of exactly those clients, among the records the store returned for
\* the route and in their order, whose visit day contains the weekday asked
\* for (if any; for "hoy", the weekday of the clock) and whose colour is the
\* colour asked for (if any).
ListIsFilteredSubsequence ==
    [][\A i \in 1..Len(queries) :
          ListStep(i) =>
              \E today \in Todays(i) :
                  listed'[queries[i].user].items =
                      BlocksOf(Kept(queries[i].routeData, DayNamed(queries[i], today),
                                    ColourNamed(queries[i])))]_vars

\* C33 witness: asked for the red clients of Monday, u1 was given Juan alone:
\* not Raul, red on Wednesdays, nor Eva, amber on Mondays
RedOfMondayListed ==
    \E i \in 1..Len(queries) :
        /\ queries[i].query = "rojos del lunes"
        /\ queries[i].path = "list"
        /\ i = Len(queries)
        /\ Len(listed["u1"].items) = 1
        /\ Includes(listed["u1"].items[1], "Juan")
        /\ Len(findMany(store, "R1")) = 4

\* ------------------------------------ properties: the two session components

\* call i returns on the deterministic path in this step: a page of a list or
\* of a continuation, or the text for no more pages or for no matches
DeterministicStep(i) ==
    /\ ResolveStep(i)
    /\ queries'[i].path \in {"list", "more", "nomore", "nomatch"}

\* call i takes a step of the fallback path: it calls the completion service,
\* or the service has answered or failed and the call returns
FallbackStep(i) ==
    \/ queries[i].pc = "resolve" /\ queries'[i].pc = "completion"
    \/ queries[i].pc = "completion" /\ queries'[i].pc = "done"

\* C34: a step that resolves a query on the deterministic path leaves the
\* history of every user as it was, and a step of a query on the fallback
\* path leaves the pagination entry of every user as it was.
PathsKeepToTheirComponent ==
    [][\A i \in 1..Len(queries) :
          /\ DeterministicStep(i) => conversationHistory' = conversationHistory
          /\ FallbackStep(i) => paginationState' = paginationState]_vars

\* C34 witness: u1, who has a list with pages left, asked a question that the
\* completion service answered: the entry of the list is there, and so is the
\* exchange in the history
QuestionAnsweredDuringList ==
    /\ Len(queries) = 2
    /\ queries[1].user = "u1" /\ queries[1].path = "list" /\ queries[1].hasMore
    /\ queries[2].user = "u1" /\ queries[2].path = "llm" /\ queries[2].pc = "done"
    /\ EntryOf(paginationState, "u1")
           = << [items |-> listed["u1"].items, index |-> 2] >>
    /\ Len(conversationHistory["u1"]) = 2

\* ---------------------------------------- properties: columns of one key

\* the rows of an uploaded file as its layout parses them
RecordsOf(u) ==
    IF u.layout = "single" THEN parse(u.file, sniffDelimiter(u.file))
    ELSE parseDefault(u.file)

\* the key each column of an uploaded file resolves to
ResolvedKeys(u) ==
    LET records == RecordsOf(u)
    IN  IF u.layout = "single" THEN mappedHeaders(records[1])
        ELSE IF u.layout = "two-row"
        THEN mappedHeadersTwoRow(RowAt(records, 1), RowAt(records, 2))
        ELSE mappedHeadersThreeRow(RowAt(records, 1),
                 resolvedHeaders(RowAt(records, 2), RowAt(records, 3)))

\* the core keys of a layout
CoreKeysOf(layout) ==
    IF layout = "single" THEN CoreKeys
    ELSE IF layout = "two-row" THEN CoreKeysTwoRow
    ELSE CoreKeysThreeRow

\* the columns, among those of the keys `mapped`, that resolve to the key of
\* column j
SameKey(mapped, j) == {i \in 1..Len(mapped) : mapped[i] = mapped[j]}

\* the greatest of a non-empty set of column numbers
RightMost(cols) == CHOOSE j \in cols : \A i \in cols : i <= j

\* the last row of the file: the one data row of a client
ClientRow(u) == RecordsOf(u)[Len(RecordsOf(u))]

\* the attributes of the one record an upload has built, and of the record in
\* the store once the upload has written it
AttributesOf(k) ==
    {uploads[k].entries[n].data : n \in 1..Len(uploads[k].entries)}
        \cup (IF uploads[k].pc = "done" THEN {store[n].data : n \in 1..Len(store)}
              ELSE {})

\* C35 as stated: when two or more columns of an upload resolve to one
\* dynamic key, the attribute of that key holds the cell of the right-most of
\* those columns.
LastColumnWins ==
    \A k \in 1..Len(uploads) :
        LET u == uploads[k]
            mapped == ResolvedKeys(u)
            row == ClientRow(u)
        IN  \A j \in 1..Len(mapped) :
                (/\ mapped[j] # "" /\ mapped[j] \notin CoreKeysOf(u.layout)
                 /\ Cardinality(SameKey(mapped, j)) > 1) =>
                    \A data \in AttributesOf(k) :
                        /\ mapped[j] \in DOMAIN data
                        /\ data[mapped[j]] = Cell(row, RightMost(SameKey(mapped, j)))

\* the layout stores the value of a cell: the single-header layout any
\* value, the two-row layout a value that is not empty, the three-row layout
\* a value that is not empty and is no word of the override table
CellStored(layout, value) ==
    IF layout = "single" THEN TRUE
    ELSE IF layout = "two-row" THEN value # ""
    ELSE value # "" /\ standaloneHeaderMapThreeRow(normalizeKey(value)) = Null

\* C35, amended: the attribute of a key that two or more columns resolve to
\* holds the cell of the right-most of those columns whose cell the layout
\* stores, and there is no such attribute when it stores none of them.
LastStoredColumnWins ==
    \A k \in 1..Len(uploads) :
        LET u == uploads[k]
            mapped == ResolvedKeys(u)
            row == ClientRow(u)
        IN  \A j \in 1..Len(mapped) :
                (/\ mapped[j] # "" /\ mapped[j] \notin CoreKeysOf(u.layout)
                 /\ Cardinality(SameKey(mapped, j)) > 1) =>
                    LET kept == {i \in SameKey(mapped, j) :
                                    CellStored(u.layout, Cell(row, i))}
                    IN  \A data \in AttributesOf(k) :
                            IF kept = {} THEN mapped[j] \notin DOMAIN data
                            ELSE /\ mapped[j] \in DOMAIN data
                                 /\ data[mapped[j]] = Cell(row, RightMost(kept))

\* C35 witness: a single-header upload whose columns "Stock a", " Stock a"
\* and "STOCK/A" held 1, Rojo and nothing has been written, and the record's
\* STOCK_A is the empty text of the third
ThirdOfThreeStored ==
    /\ Len(uploads) = 1 /\ uploads[1].pc = "done" /\ Len(store) = 1
    /\ uploads[1].file = DuplicateFile(" Stock a", "STOCK/A", "1", "Rojo", "")
    /\ DOMAIN store[1].data = {"STOCK_A"}
    /\ store[1].data["STOCK_A"] = ""

\* ----------------------------------------- properties: registration codes

\* the users created with a registration code
RegisteredWith(code) == {u \in DOMAIN users : users[u].registrationCode = code}

\* C36: a code that is not global registers at most one user, whatever the
\* interleaving of the requests that present it, and a request that presents
\* it and is not the one that registered the user is answered that the code
\* has been used.
CodeRegistersOneUser ==
    \A code \in DOMAIN registrationCodes :
        ~registrationCodes[code].isGlobal =>
            /\ Cardinality(RegisteredWith(code)) <= 1
            /\ \A n \in 1..Len(requests) :
                   (/\ requests[n].route = "/auth/register"
                    /\ requests[n].code = code
                    /\ requests[n].pc = "finished"
                    /\ RegisteredWith(code) # {}
                    /\ requests[n].userId \notin RegisteredWith(code)) =>
                       requests[n].replies \in
                           { << [status |-> 400, body |-> CodeUsedMsg] >>,
                             << [status |-> 400, body |-> EmailTakenMsg] >>,
                             << [status |-> 500, body |-> CreateUserErrorMsg] >> }

\* ------------------------------------------ properties: the admin's routes

\* upload k has deleted the table, or deleted it and written its rows
StoreWrittenBy(k) ==
    \/ uploads[k].pc = "createMany"
    \/ uploads[k].pc = "done" /\ uploads[k].count > 0

\* C37: only an admin replaces the snapshot. An upload requested by an
\* authenticated requester who is no admin never deletes or writes the store,
\* the requester is answered 403, and so is that requester on /admin/users.
OnlyAdminReplacesSnapshot ==
    \A n \in 1..Len(requests) :
        (requests[n].role \notin {"admin", Null}) =>
            /\ requests[n].route = "/admin/upload-csv" =>
                   /\ requests[n].ref # 0 =>
                          ~StoreWrittenBy(requests[n].ref)
                   /\ requests[n].pc = "finished" =>
                          /\ requests[n].replies[1].status = 403
                          /\ store = PriorSnapshot
            /\ requests[n].route = "/admin/users" =>
                   requests[n].replies[1].status = 403

\* ---------------------------------------------- properties: the webhook

\* the handler of request n has finished
HandlerFinished(n) == requests[n].pc \in {"returned", "finished"}

\* C38: every request to the webhook is answered once, by its handler and
\* before the handler finishes, whichever path it takes.
WebhookAnsweredOnce ==
    \A n \in 1..Len(requests) :
        (requests[n].route = "/webhook/wazend" /\ HandlerFinished(n)) =>
            /\ Len(requests[n].replies) = 1
            /\ requests[n].seen # <<"framework">>

\* the requests that drew `code` for a user, and the messages carrying
\* `code` whose sender was told that the link succeeded
Drawn(code) ==
    {n \in 1..Len(requests) :
        requests[n].route = "/user/generate-code" /\ requests[n].code = code}
ToldLinked(code) ==
    {n \in 1..Len(requests) :
        /\ requests[n].route = "/webhook/wazend"
        /\ requests[n].text = code
        /\ \E k \in 1..Len(requests[n].sent) :
               StartsWith(requests[n].sent[k], "[ok]")}

\* C39: a verification code is used once. No more senders are told that the
\* link succeeded than codes were drawn; and once a sender has been told so
\* and no message with the code is being handled, the user holds no pending
\* code and is linked to that sender's phone.
VerificationCodeSingleUse ==
    /\ Cardinality(ToldLinked(PendingCode)) <= Cardinality(Drawn(PendingCode))
    /\ \A n \in ToldLinked(PendingCode) :
           (\A k \in 1..Len(requests) :
                requests[k].route = "/webhook/wazend" => requests[k].pc = "finished") =>
               /\ users[requests[n].userId].verificationCode = Null
               /\ users[requests[n].userId].whatsappId = requests[n].phone

====
